---- MODULE Spec2Model ----
(***************************************************************************)
(* Industrial-vacancy pipeline: merging and deduplication of vacancy       *)
(* files (vacancy_merger.py), loading into SQLite (db_manager.py) and the  *)
(* rule-based classifiers (data_cleaner.py, db_manager.py).                *)
(*                                                                         *)
(* Text is a sequence of one-character tokens.  The source's Cyrillic     *)
(* strings are transliterated one character to one token (the mapping is  *)
(* injective, so substring relations are exactly those of the source);    *)
(* an upper-case letter is the upper-case token.                          *)
(***************************************************************************)
EXTENDS Integers, Sequences, FiniteSets, Bags, TLC

VARIABLES
    \* ---- VacancyMerger (vacancy_merger.py) and DataCleaner dedup ----
    files,              \* the JSON files of data_dir, in the order given
    all_vacancies,      \* result of load_and_merge_files
    dedup_in,           \* argument of the last remove_duplicates call
    unique_vacancies,   \* result of the last remove_duplicates call
    stats,              \* VacancyMerger.stats
    df_in,              \* DataFrame rows passed to DataCleaner._remove_duplicates
    df_out,             \* DataFrame rows it returned
    cleaned_df,         \* outcome of the last clean_vacancies_dataframe call
    mpc,                \* position in the merge pipeline
    \* ---- IndustrialDatabaseManager (db_manager.py) ----
    tbl_vacancies,      \* table vacancies: a bag of rows
    tbl_skills,         \* table skills: a bag of rows
    processed_vacancy_ids,  \* self.processed_vacancy_ids
    last_return,        \* value returned by the last insert_vacancies_batch call
    loads,              \* number of insert_vacancies_batch calls so far
    observed,           \* the call under observation: its argument and the table before it
    \* ---- error_estimation.py ----
    sample,             \* the Series passed to the estimator called last
    ci,                 \* outcome of calculate_confidence_interval
    prop_in,            \* count and total passed to calculate_proportion_confidence_interval
    prop,               \* its outcome
    boot_in,            \* n_bootstrap and statistic passed to bootstrap_confidence_interval
    boot,               \* its outcome
    summary,            \* outcome of calculate_statistical_summary
    spc,                \* which estimator ran last
    \* ---- filtr.py ----
    flt_in,             \* the vacancies loaded by the filter that ran
    flt_kept,           \* industrial_vacancies
    flt_removed,        \* removed_vacancies
    fpc,                \* which filter ran
    \* ---- UltraIndustrialClient._is_true_industrial_vacancy (hh_api_client.py) ----
    ind_in,             \* the vacancy checked and the client's industrial id sets
    ind_out,            \* what the check did: returned True/False or raised
    \* ---- DataValidator.validate_dataset (data_validator.py) ----
    validation_report,  \* the checks of the last report and its summary
    \* ---- VacancyMerger.merge_and_analyze (vacancy_merger.py) ----
    merger,             \* one VacancyMerger over its calls: stats and the last outcome
    \* ---- UltraIndustrialClient collecting one region (hh_api_client.py) ----
    collector,          \* processed_vacancy_ids, stats, the region's lists, position
    tasks,              \* the page-collector coroutines of the running gather
    \* ---- UltraIndustrialClient._send_request and its semaphore ----
    requests            \* the _send_request calls: position, permits held, 429s answered

mergerVars == <<files, all_vacancies, dedup_in, unique_vacancies, stats, df_in, df_out,
               cleaned_df, mpc>>
dbVars == <<tbl_vacancies, tbl_skills, processed_vacancy_ids, last_return, loads, observed>>
statsVars == <<sample, ci, prop_in, prop, boot_in, boot, summary, spc>>
filterVars == <<flt_in, flt_kept, flt_removed, fpc>>
industrialVars == <<ind_in, ind_out>>
validatorVars == <<validation_report>>
reportVars == <<merger>>
collectorVars == <<collector, tasks>>
requestVars == <<requests>>
toolVars == <<filterVars, industrialVars, validatorVars, reportVars, collectorVars,
              requestVars>>
coreVars == <<mergerVars, dbVars, statsVars>>
vars == <<mergerVars, dbVars, statsVars, toolVars>>

(***************************************************************************)
(* Bounds of the model.                                                    *)
(***************************************************************************)
MaxLen == 4             \* records in all the merged files together
MaxBatch == 2           \* records in one batch passed to insert_vacancies_batch
MaxLoads == 3           \* insert_vacancies_batch calls on one database
MaxRows == 2            \* rows of a DataFrame passed to clean_vacancies_dataframe
MaxSample == 31         \* usable values of a Series passed to an estimator
MaxTotal == 12          \* total passed to calculate_proportion_confidence_interval
MaxResample == 3        \* values of each kind in a Series that is resampled

(***************************************************************************)
(* Text helpers.                                                           *)
(***************************************************************************)
\* str.lower() on the letters the model uses
LowerOf(c) ==
    CASE c = "A" -> "a" [] c = "B" -> "b" [] c = "V" -> "v" [] c = "G" -> "g"
      [] c = "D" -> "d" [] c = "E" -> "e" [] c = "ZH" -> "zh" [] c = "Z" -> "z"
      [] c = "I" -> "i" [] c = "K" -> "k" [] c = "L" -> "l" [] c = "M" -> "m"
      [] c = "N" -> "n" [] c = "O" -> "o" [] c = "P" -> "p" [] c = "R" -> "r"
      [] c = "S" -> "s" [] c = "T" -> "t" [] c = "U" -> "u" [] c = "EH" -> "eh"
      [] OTHER -> c

lower(text) == [i \in 1..Len(text) |-> LowerOf(text[i])]

\* Python's `keyword in text` on strings: contiguous substring
Contains(keyword, text) ==
    \E i \in 1..(Len(text) - Len(keyword) + 1) :
        SubSeq(text, i, i + Len(keyword) - 1) = keyword

RECURSIVE SeqsUpTo(_, _)
SeqsUpTo(S, n) ==
    IF n = 0 THEN {<<>>}
    ELSE LET shorter == SeqsUpTo(S, n - 1)
         IN  shorter \cup {Append(s, x) : s \in {t \in shorter : Len(t) = n - 1}, x \in S}

(***************************************************************************)
(* Vacancy records (the dicts loaded from JSON).                           *)
(*   id "" stands for an absent, null or empty identifier (all falsy).     *)
(***************************************************************************)
T_Slesar    == <<"S","l","e","s","a","r","q">>
T_Inzhener  == <<"I","n","zh","e","n","e","r">>
T_Energetik == <<"EH","n","e","r","g","e","t","i","k">>
T_Buhgalter == <<"B","u","h","g","a","l","t","e","r">>
T_Zavod     == <<"Z","a","v","o","d">>
T_OpytSlesarem == <<"O","p","y","t"," ","r","a","b","o","t","y"," ","s","l","e","s","a","r","e","m">>

T_GenDirektor == <<"G","e","n","e","r","a","l","q","n","y","j"," ","d","i","r","e","k","t","o","r">>
T_TehDirektor == <<"T","e","h","n","i","ch","e","s","k","i","j"," ","d","i","r","e","k","t","o","r">>
T_MasterUchastka == <<"M","a","s","t","e","r"," ","u","ch","a","s","t","k","a">>
T_InzhenerEnergetik == <<" ","I","n","zh","e","n","e","r","-","eh","n","e","r","g","e","t","i","k"," ">>
T_Kladovschik == <<"K","l","a","d","o","v","sch","i","k">>
T_Gazprom == <<"G","a","z","p","r","o","m">>
T_Spaces == <<" "," ">>
T_Twelve == <<"1","2">>

NoId == ""

Truthy(id) == id # NoId

\* optional JSON members: kind "absent" (no key), "null" or "dict"
NoSalary   == [kind |-> "absent", from |-> <<>>, to |-> <<>>, currency |-> ""]
NullSalary == [kind |-> "null", from |-> <<>>, to |-> <<>>, currency |-> ""]
Salary(from, to, currency) == [kind |-> "dict", from |-> from, to |-> to, currency |-> currency]

NoEmployer   == [kind |-> "absent", name |-> <<>>]
Employer(name) == [kind |-> "dict", name |-> name]

NoArea   == [kind |-> "absent", name |-> ""]
Area(name) == [kind |-> "dict", name |-> name]

NoSnippet == [kind |-> "absent", requirement_kind |-> "absent", requirement |-> <<>>]
Snippet(requirement) == [kind |-> "dict", requirement_kind |-> "str", requirement |-> requirement]

\* a vacancy dict holding only id and name
Vacancy(id, name) ==
    [kind |-> "dict", id |-> id, name |-> name, area |-> NoArea, salary |-> NoSalary,
     employer |-> NoEmployer, snippet |-> NoSnippet, key_skills |-> <<>>,
     published_at |-> ""]

\* a vacancy as the API returns it
FullVacancy(id, name) ==
    [Vacancy(id, name) EXCEPT
        !.area = Area("Moskva"),
        !.salary = Salary(<<50000>>, <<70000>>, "RUR"),
        !.employer = Employer(T_Zavod),
        !.snippet = Snippet(T_OpytSlesarem),
        !.key_skills = <<"svarka", "">>,
        !.published_at = "2024-01-01T00:00:00+0300"]

\* a list element that is not a dict (a string, a number, null)
NonDict == [Vacancy(NoId, <<>>) EXCEPT !.kind = "nondict"]

MergerIds == {NoId, "7", "8"}
MergerVacancies == {Vacancy(i, n) : i \in MergerIds, n \in {T_Slesar, T_Inzhener}}

\* db_manager.py _classify_industry_segment: segments_keywords (fallback table)
segments_keywords ==
  <<
    [category |-> "mashinostroenie", keywords |-> <<
        <<"m","a","sh","i","n","o","s","t","r","o","e","n","i","e">>,  \* mashinostroenie
        <<"s","t","a","n","k","o","s","t","r","o","e","n","i","e">>,  \* stankostroenie
        <<"a","v","t","o","m","o","b","i","l","e","s","t","r","o","e","n","i","e">>,  \* avtomobilestroenie
        <<"a","v","i","a","s","t","r","o","e","n","i","e">>,  \* aviastroenie
        <<"s","u","d","o","s","t","r","o","e","n","i","e">>,  \* sudostroenie
        <<"o","b","o","r","o","n","p","r","o","m">>,  \* oboronprom
        <<"v","a","g","o","n","o","s","t","r","o","e","n","i","e">>  \* vagonostroenie
    >>],
    [category |-> "metallurgiya", keywords |-> <<
        <<"m","e","t","a","l","l","u","r","g">>,  \* metallurg
        <<"s","t","a","l","e","v","a","r">>,  \* stalevar
        <<"p","r","o","k","a","t">>,  \* prokat
        <<"l","i","t","e","j","sch">>,  \* litejsch
        <<"m","e","t","a","l","l","o","o","b","r","a","b","o","t","k">>,  \* metalloobrabotk
        <<"k","o","v","k">>,  \* kovk
        <<"sh","t","a","m","p","o","v">>,  \* shtampov
        <<"p","r","e","s","s","o","v">>  \* pressov
    >>],
    [category |-> "himicheskaya", keywords |-> <<
        <<"h","i","m","i","k">>,  \* himik
        <<"l","a","b","o","r","a","n","t">>,  \* laborant
        <<"t","e","h","n","o","l","o","g"," ","h","i","m","i">>,  \* tehnolog himi
        <<"n","e","f","t","e","h","i","m">>,  \* neftehim
        <<"p","o","l","i","m","e","r">>,  \* polimer
        <<"p","l","a","s","t","m","a","s","s">>,  \* plastmass
        <<"r","e","z","i","n","o","t","e","h","n","i","ch","e","s","k">>,  \* rezinotehnichesk
        <<"l","a","k","o","k","r","a","s","o","ch","n">>  \* lakokrasochn
    >>],
    [category |-> "ehnergetika", keywords |-> <<
        <<"eh","n","e","r","g","e","t","i","k">>,  \* ehnergetik
        <<"eh","l","e","k","t","r","i","k">>,  \* ehlektrik
        <<"eh","l","e","k","t","r","o","m","o","n","t","e","r">>,  \* ehlektromonter
        <<"eh","l","e","k","t","r","o","m","e","h","a","n","i","k">>,  \* ehlektromehanik
        <<"r","e","l","e","j","sch","i","k">>,  \* relejschik
        <<"eh","l","e","k","t","r","o","eh","n","e","r","g","e","t","i","k">>,  \* ehlektroehnergetik
        <<"t","e","p","l","o","eh","n","e","r","g","e","t","i","k">>  \* teploehnergetik
    >>],
    [category |-> "neftegazovaya", keywords |-> <<
        <<"n","e","f","t","q">>,  \* neftq
        <<"g","a","z">>,  \* gaz
        <<"b","u","r","o","v","i","k">>,  \* burovik
        <<"n","e","f","t","ya","n","i","k">>,  \* neftyanik
        <<"g","a","z","o","v","i","k">>,  \* gazovik
        <<"n","e","f","t","e","d","o","b","y","ch","a">>,  \* neftedobycha
        <<"n","e","f","t","e","p","e","r","e","r","a","b","o","t","k">>,  \* neftepererabotk
        <<"t","r","u","b","o","p","r","o","v","o","d">>  \* truboprovod
    >>],
    [category |-> "gornodobyvayuschaya", keywords |-> <<
        <<"g","o","r","n","ya","k">>,  \* gornyak
        <<"v","z","r","y","v","n","i","k">>,  \* vzryvnik
        <<"p","r","o","h","o","d","ch","i","k">>,  \* prohodchik
        <<"m","a","r","k","sh","e","j","d","e","r">>,  \* markshejder
        <<"o","b","o","g","a","t","i","t","e","l","q">>,  \* obogatitelq
        <<"sh","a","h","t">>,  \* shaht
        <<"r","u","d","n","i","k">>,  \* rudnik
        <<"k","a","r","q","e","r">>  \* karqer
    >>],
    [category |-> "stroitelqnaya", keywords |-> <<
        <<"s","t","r","o","i","t","e","l","q">>,  \* stroitelq
        <<"m","o","n","t","a","zh","n","i","k">>,  \* montazhnik
        <<"k","a","m","e","n","sch","i","k">>,  \* kamenschik
        <<"sh","t","u","k","a","t","u","r">>,  \* shtukatur
        <<"m","a","l","ya","r">>,  \* malyar
        <<"k","r","o","v","e","l","q","sch","i","k">>,  \* krovelqschik
        <<"a","r","m","a","t","u","r","sch","i","k">>,  \* armaturschik
        <<"b","e","t","o","n","sch","i","k">>  \* betonschik
    >>],
    [category |-> "priborostroenie", keywords |-> <<
        <<"k","i","p">>,  \* kip
        <<"k","i","p","i","a">>,  \* kipia
        <<"p","r","i","b","o","r","i","s","t">>,  \* priborist
        <<"a","s","u","t","p">>,  \* asutp
        <<"a","v","t","o","m","a","t","i","k","a">>,  \* avtomatika
        <<"t","e","l","e","m","e","h","a","n","i","k">>,  \* telemehanik
        <<"r","a","d","i","o","eh","l","e","k","t","r","o","n">>,  \* radioehlektron
        <<"eh","l","e","k","t","r","o","n","sch","i","k">>  \* ehlektronschik
    >>],
    [category |-> "derevoobrabatyvayuschaya", keywords |-> <<
        <<"d","e","r","e","v","o","o","b","r","a","b","o","t","k">>,  \* derevoobrabotk
        <<"s","t","o","l","ya","r">>,  \* stolyar
        <<"p","l","o","t","n","i","k">>,  \* plotnik
        <<"l","e","s","n","i","k">>,  \* lesnik
        <<"l","e","s","o","z","a","g","o","t","o","v","k">>,  \* lesozagotovk
        <<"m","e","b","e","l","q","sch">>,  \* mebelqsch
        <<"p","a","r","k","e","t","ch">>  \* parketch
    >>],
    [category |-> "pischevaya", keywords |-> <<
        <<"p","i","sch","e","v">>,  \* pischev
        <<"t","e","h","n","o","l","o","g"," ","p","i","sch","e","v">>,  \* tehnolog pischev
        <<"a","p","p","a","r","a","t","ch","i","k"," ","p","i","sch","e","v">>,  \* apparatchik pischev
        <<"o","p","e","r","a","t","o","r"," ","l","i","n","i","i">>,  \* operator linii
        <<"m","u","k","o","m","o","l">>,  \* mukomol
        <<"k","o","n","d","i","t","e","r">>,  \* konditer
        <<"m","a","s","l","o","d","e","l">>,  \* maslodel
        <<"s","y","r","o","d","e","l">>  \* syrodel
    >>]
  >>

\* db_manager.py _classify_position_level: levels_keywords (fallback table)
levels_keywords ==
  <<
    [category |-> "rabochij", keywords |-> <<
        <<"r","a","b","o","ch","i","j">>,  \* rabochij
        <<"o","p","e","r","a","t","o","r">>,  \* operator
        <<"g","r","u","z","ch","i","k">>,  \* gruzchik
        <<"s","l","e","s","a","r","q">>,  \* slesarq
        <<"t","o","k","a","r","q">>,  \* tokarq
        <<"f","r","e","z","e","r","o","v","sch","i","k">>,  \* frezerovschik
        <<"s","v","a","r","sch","i","k">>,  \* svarschik
        <<"m","o","n","t","a","zh","n","i","k">>,  \* montazhnik
        <<"eh","l","e","k","t","r","o","m","o","n","t","e","r">>,  \* ehlektromonter
        <<"n","a","l","a","d","ch","i","k">>  \* naladchik
    >>],
    [category |-> "specialist", keywords |-> <<
        <<"s","p","e","c","i","a","l","i","s","t">>,  \* specialist
        <<"t","e","h","n","o","l","o","g">>,  \* tehnolog
        <<"m","a","s","t","e","r">>,  \* master
        <<"b","r","i","g","a","d","i","r">>,  \* brigadir
        <<"m","e","h","a","n","i","k">>,  \* mehanik
        <<"eh","l","e","k","t","r","i","k">>  \* ehlektrik
    >>],
    [category |-> "inzhener", keywords |-> <<
        <<"i","n","zh","e","n","e","r">>,  \* inzhener
        <<"k","o","n","s","t","r","u","k","t","o","r">>,  \* konstruktor
        <<"p","r","o","e","k","t","i","r","o","v","sch","i","k">>,  \* proektirovschik
        <<"t","e","h","n","i","k">>  \* tehnik
    >>],
    [category |-> "rukovoditelq", keywords |-> <<
        <<"n","a","ch","a","l","q","n","i","k">>,  \* nachalqnik
        <<"r","u","k","o","v","o","d","i","t","e","l","q">>,  \* rukovoditelq
        <<"d","i","r","e","k","t","o","r">>,  \* direktor
        <<"z","a","m">>,  \* zam
        <<"z","a","m","e","s","t","i","t","e","l","q">>,  \* zamestitelq
        <<"u","p","r","a","v","l","ya","yu","sch">>,  \* upravlyayusch
        <<"p","r","o","r","a","b">>,  \* prorab
        <<"m","a","s","t","e","r"," ","u","ch","a","s","t","k","a">>  \* master uchastka
    >>],
    [category |-> "vysshee_rukovodstvo", keywords |-> <<
        <<"g","e","n","e","r","a","l","q","n","y","j">>,  \* generalqnyj
        <<"d","i","r","e","k","t","o","r"," ","p","o"," ","r","a","z","v","i","t","i","yu">>,  \* direktor po razvitiyu
        <<"t","e","h","n","i","ch","e","s","k","i","j"," ","d","i","r","e","k","t","o","r">>,  \* tehnicheskij direktor
        <<"g","l","a","v","n","y","j"," ","i","n","zh","e","n","e","r">>,  \* glavnyj inzhener
        <<"g","l","a","v","n","y","j"," ","t","e","h","n","o","l","o","g">>  \* glavnyj tehnolog
    >>]
  >>

\* db_manager.py _is_true_industrial_vacancy: strong_non_industrial (a set)
strong_non_industrial ==
  <<
    <<"a","d","v","o","k","a","t">>,  \* advokat
    <<"a","d","m","i","n","i","s","t","r","a","t","o","r">>,  \* administrator
    <<"a","j","t","i">>,  \* ajti
    <<"b","a","r","i","s","t","a">>,  \* barista
    <<"b","a","r","m","e","n">>,  \* barmen
    <<"b","u","h","g","a","l","t","e","r">>,  \* buhgalter
    <<"v","o","d","i","t","e","l","q">>,  \* voditelq
    <<"v","o","s","p","i","t","a","t","e","l","q">>,  \* vospitatelq
    <<"v","r","a","ch">>,  \* vrach
    <<"k","a","s","s","i","r">>,  \* kassir
    <<"k","l","i","n","i","n","g">>,  \* klining
    <<"k","o","n","s","u","l","q","t","a","n","t">>,  \* konsulqtant
    <<"k","o","n","t","r","o","l","e","r">>,  \* kontroler
    <<"k","u","r","q","e","r">>,  \* kurqer
    <<"m","a","r","k","e","t","o","l","o","g">>,  \* marketolog
    <<"m","e","d","s","e","s","t","r","a">>,  \* medsestra
    <<"m","e","n","e","d","zh","e","r"," ","p","o"," ","p","r","o","d","a","zh","a","m">>,  \* menedzher po prodazham
    <<"n","o","t","a","r","i","u","s">>,  \* notarius
    <<"o","f","i","s","-","m","e","n","e","d","zh","e","r">>,  \* ofis-menedzher
    <<"o","f","i","c","i","a","n","t">>,  \* oficiant
    <<"o","h","r","a","n","n","i","k">>,  \* ohrannik
    <<"p","o","v","a","r">>,  \* povar
    <<"p","r","e","p","o","d","a","v","a","t","e","l","q">>,  \* prepodavatelq
    <<"p","r","o","g","r","a","m","m","i","s","t">>,  \* programmist
    <<"p","r","o","d","a","v","e","c">>,  \* prodavec
    <<"r","a","z","r","a","b","o","t","ch","i","k">>,  \* razrabotchik
    <<"s","e","k","r","e","t","a","r","q">>,  \* sekretarq
    <<"s","t","o","r","o","zh">>,  \* storozh
    <<"t","e","s","t","i","r","o","v","sch","i","k">>,  \* testirovschik
    <<"t","o","r","g","o","v","y","j"," ","p","r","e","d","s","t","a","v","i","t","e","l","q">>,  \* torgovyj predstavitelq
    <<"u","b","o","r","sch","i","k">>,  \* uborschik
    <<"u","b","o","r","sch","i","c","a">>,  \* uborschica
    <<"u","ch","i","t","e","l","q">>,  \* uchitelq
    <<"f","e","l","q","d","sh","e","r">>,  \* felqdsher
    <<"eh","k","s","p","e","d","i","t","o","r">>,  \* ehkspeditor
    <<"yu","r","i","s","t">>  \* yurist
  >>

\* db_manager.py _extract_industrial_keywords: keywords_list
keywords_list ==
  <<
    <<"i","n","zh","e","n","e","r">>,  \* inzhener
    <<"t","e","h","n","o","l","o","g">>,  \* tehnolog
    <<"k","o","n","s","t","r","u","k","t","o","r">>,  \* konstruktor
    <<"m","e","h","a","n","i","k">>,  \* mehanik
    <<"eh","l","e","k","t","r","i","k">>,  \* ehlektrik
    <<"s","v","a","r","sch","i","k">>,  \* svarschik
    <<"t","o","k","a","r","q">>,  \* tokarq
    <<"f","r","e","z","e","r","o","v","sch","i","k">>,  \* frezerovschik
    <<"n","a","l","a","d","ch","i","k">>,  \* naladchik
    <<"o","p","e","r","a","t","o","r">>,  \* operator
    <<"a","p","p","a","r","a","t","ch","i","k">>,  \* apparatchik
    <<"m","a","sh","i","n","i","s","t">>,  \* mashinist
    <<"m","o","n","t","a","zh","n","i","k">>,  \* montazhnik
    <<"r","e","m","o","n","t","n","i","k">>,  \* remontnik
    <<"s","t","a","n","o","ch","n","i","k">>  \* stanochnik
  >>

\* data_cleaner.py classify_position_level: level_keywords
level_keywords ==
  <<
    [category |-> "worker", keywords |-> <<
        <<"r","a","b","o","ch","i","j">>,  \* rabochij
        <<"o","p","e","r","a","t","o","r">>,  \* operator
        <<"g","r","u","z","ch","i","k">>,  \* gruzchik
        <<"s","l","e","s","a","r","q">>,  \* slesarq
        <<"t","o","k","a","r","q">>  \* tokarq
    >>],
    [category |-> "specialist", keywords |-> <<
        <<"s","p","e","c","i","a","l","i","s","t">>,  \* specialist
        <<"m","e","n","e","d","zh","e","r">>,  \* menedzher
        <<"t","e","h","n","o","l","o","g">>,  \* tehnolog
        <<"m","a","s","t","e","r">>  \* master
    >>],
    [category |-> "engineer", keywords |-> <<
        <<"i","n","zh","e","n","e","r">>,  \* inzhener
        <<"k","o","n","s","t","r","u","k","t","o","r">>,  \* konstruktor
        <<"p","r","o","e","k","t","i","r","o","v","sch","i","k">>  \* proektirovschik
    >>],
    [category |-> "leadership", keywords |-> <<
        <<"n","a","ch","a","l","q","n","i","k">>,  \* nachalqnik
        <<"r","u","k","o","v","o","d","i","t","e","l","q">>,  \* rukovoditelq
        <<"d","i","r","e","k","t","o","r">>,  \* direktor
        <<"z","a","v","e","d","u","yu","sch","i","j">>  \* zaveduyuschij
    >>],
    [category |-> "executive", keywords |-> <<
        <<"g","e","n","e","r","a","l","q","n","y","j">>,  \* generalqnyj
        <<"d","i","r","e","k","t","o","r"," ","p","o"," ","r","a","z","v","i","t","i","yu">>,  \* direktor po razvitiyu
        <<"t","e","h","n","i","ch","e","s","k","i","j"," ","d","i","r","e","k","t","o","r">>  \* tehnicheskij direktor
    >>]
  >>

\* data_cleaner.py classify_industry_segment: segment_keywords
segment_keywords ==
  <<
    [category |-> "machinery", keywords |-> <<
        <<"m","a","sh","i","n","o","s","t","r","o","e","n","i","e">>,  \* mashinostroenie
        <<"s","t","a","n","k","o","s","t","r","o","e","n","i","e">>,  \* stankostroenie
        <<"a","v","t","o","m","o","b","i","l","e","s","t","r","o","e","n","i","e">>  \* avtomobilestroenie
    >>],
    [category |-> "metallurgy", keywords |-> <<
        <<"m","e","t","a","l","l","u","r","g">>,  \* metallurg
        <<"s","t","a","l","e","v","a","r">>,  \* stalevar
        <<"p","r","o","k","a","t">>,  \* prokat
        <<"l","i","t","e","j","sch">>  \* litejsch
    >>],
    [category |-> "chemical", keywords |-> <<
        <<"h","i","m","i","k">>,  \* himik
        <<"l","a","b","o","r","a","n","t">>,  \* laborant
        <<"t","e","h","n","o","l","o","g"," ","h","i","m","i">>,  \* tehnolog himi
        <<"n","e","f","t","e","h","i","m">>  \* neftehim
    >>],
    [category |-> "energy", keywords |-> <<
        <<"eh","n","e","r","g","e","t","i","k">>,  \* ehnergetik
        <<"eh","l","e","k","t","r","i","k">>,  \* ehlektrik
        <<"eh","l","e","k","t","r","o","m","o","n","t","e","r">>,  \* ehlektromonter
        <<"eh","n","e","r","g","o">>  \* ehnergo
    >>],
    [category |-> "oil_gas", keywords |-> <<
        <<"n","e","f","t","q">>,  \* neftq
        <<"g","a","z">>,  \* gaz
        <<"b","u","r","o","v","i","k">>,  \* burovik
        <<"n","e","f","t","ya","n","i","k">>  \* neftyanik
    >>],
    [category |-> "construction", keywords |-> <<
        <<"s","t","r","o","i","t","e","l","q">>,  \* stroitelq
        <<"m","o","n","t","a","zh","n","i","k">>,  \* montazhnik
        <<"o","t","d","e","l","o","ch","n","i","k">>  \* otdelochnik
    >>]
  >>

(***************************************************************************)
(* vacancy_merger.py                                                       *)
(***************************************************************************)
\* load_and_merge_files: the merged list; a file that cannot be read or
\* does not hold a list contributes nothing
RECURSIVE MergeLoop(_, _)
MergeLoop(json_files, acc) ==
    IF json_files = <<>> THEN acc
    ELSE LET f == Head(json_files)
         IN  IF f.kind = "list"
             THEN MergeLoop(Tail(json_files), acc \o f.data)
             ELSE MergeLoop(Tail(json_files), acc)

\* mutant: each file's records are put in front of those already merged
RECURSIVE MergeLoopPrepend(_, _)
MergeLoopPrepend(json_files, acc) ==
    IF json_files = <<>> THEN acc
    ELSE LET f == Head(json_files)
         IN  IF f.kind = "list"
             THEN MergeLoopPrepend(Tail(json_files), f.data \o acc)
             ELSE MergeLoopPrepend(Tail(json_files), acc)

load_and_merge_files_prepend(json_files) == MergeLoopPrepend(json_files, <<>>)

load_and_merge_files(json_files) == MergeLoop(json_files, <<>>)

FilesProcessed(json_files) ==
    Cardinality({i \in 1..Len(json_files) : json_files[i].kind = "list"})

\* remove_duplicates: the loop over vacancies with seen_ids / unique_vacancies
RECURSIVE DedupLoop(_, _, _)
DedupLoop(vacancies, seen_ids, unique) ==
    IF vacancies = <<>> THEN unique
    ELSE LET vacancy == Head(vacancies)
             vacancy_id == vacancy.id
         IN  IF Truthy(vacancy_id) /\ vacancy_id \notin seen_ids
             THEN DedupLoop(Tail(vacancies), seen_ids \cup {vacancy_id},
                            Append(unique, vacancy))
             ELSE DedupLoop(Tail(vacancies), seen_ids, unique)

\* mutant: dedup through a dict keyed by id ({v['id']: v for v in vacancies}):
\* first-seen order, but the record kept for an id is its last occurrence
remove_duplicates_keep_last(vacancies) ==
    LET firsts == DedupLoop(vacancies, {}, <<>>)
        LastOf(id) == CHOOSE i \in 1..Len(vacancies) :
                          /\ vacancies[i].id = id
                          /\ \A j \in (i + 1)..Len(vacancies) : vacancies[j].id # id
    IN  [k \in 1..Len(firsts) |-> vacancies[LastOf(firsts[k].id)]]

\* mutant: unique_vacancies.insert(0, vacancy) instead of append
RECURSIVE DedupLoopInsertFront(_, _, _)
DedupLoopInsertFront(vacancies, seen_ids, unique) ==
    IF vacancies = <<>> THEN unique
    ELSE LET vacancy == Head(vacancies)
             vacancy_id == vacancy.id
         IN  IF Truthy(vacancy_id) /\ vacancy_id \notin seen_ids
             THEN DedupLoopInsertFront(Tail(vacancies), seen_ids \cup {vacancy_id},
                                       <<vacancy>> \o unique)
             ELSE DedupLoopInsertFront(Tail(vacancies), seen_ids, unique)

remove_duplicates_insert_front(vacancies) == DedupLoopInsertFront(vacancies, {}, <<>>)

\* mutant: an id-less record is keyed by its title (key = id or hash of the title)
RECURSIVE DedupLoopTitleKey(_, _, _)
DedupLoopTitleKey(vacancies, seen_ids, unique) ==
    IF vacancies = <<>> THEN unique
    ELSE LET vacancy == Head(vacancies)
             key == IF Truthy(vacancy.id) THEN <<"id", vacancy.id>>
                    ELSE <<"hash", vacancy.name>>
         IN  IF key \notin seen_ids
             THEN DedupLoopTitleKey(Tail(vacancies), seen_ids \cup {key},
                                    Append(unique, vacancy))
             ELSE DedupLoopTitleKey(Tail(vacancies), seen_ids, unique)

remove_duplicates_title_key(vacancies) == DedupLoopTitleKey(vacancies, {}, <<>>)

remove_duplicates(vacancies) == DedupLoop(vacancies, {}, <<>>)

\* DataCleaner._remove_duplicates: df.drop_duplicates(subset=['id'], keep='first');
\* pandas treats missing ids as equal to each other, so the first id-less row stays
RECURSIVE DropLoop(_, _, _)
DropLoop(rows, seen, kept) ==
    IF rows = <<>> THEN kept
    ELSE IF Head(rows).id \in seen
         THEN DropLoop(Tail(rows), seen, kept)
         ELSE DropLoop(Tail(rows), seen \cup {Head(rows).id}, Append(kept, Head(rows)))

drop_duplicates(rows) == DropLoop(rows, {}, <<>>)

(***************************************************************************)
(* db_manager.py: IndustrialDatabaseManager                                *)
(***************************************************************************)
batch_size == 1000      \* self.batch_size: inserts between two commits
LogEvery == 1000        \* an error is logged when inserted_count % 1000 == 0

\* identifiers of the model: "#7" stands for the JSON number 7 (not a string)
IsStr(hh_id) == hh_id # "#7"

\* str.isdigit()
isdigit(hh_id) == hh_id \in {"7", "007", "8", "9"}

\* int(hh_id)
IntOf(hh_id) ==
    CASE hh_id = "7" -> 7 [] hh_id = "007" -> 7 [] hh_id = "8" -> 8 [] hh_id = "9" -> 9

\* int(hashlib.md5(hh_id.encode()).hexdigest()[:8], 16)
Md5Prefix(hh_id) ==
    CASE hh_id = "x7" -> 607580731 [] hh_id = "hh-8" -> 1233514404

\* _generate_vacancy_id raises AttributeError: a non-string id has no isdigit
GenerateIdRaises(vacancy) == Truthy(vacancy.id) /\ ~IsStr(vacancy.id)

_generate_vacancy_id(vacancy) ==
    LET hh_id == vacancy.id
    IN  IF Truthy(hh_id) /\ isdigit(hh_id) THEN IntOf(hh_id) ELSE Md5Prefix(hh_id)

\* _is_true_industrial_vacancy: the simplified filter
_is_true_industrial_vacancy(vacancy) ==
    /\ Truthy(vacancy.id)
    /\ vacancy.name # <<>>
    /\ ~\E k \in 1..Len(strong_non_industrial) :
           Contains(strong_non_industrial[k], lower(vacancy.name))

\* exchange_rates, times ten
RateTimesTen(currency) ==
    CASE currency \in {"RUR", "RUB"} -> 10
      [] currency = "USD" -> 950
      [] currency = "EUR" -> 1000
      [] currency = "KZT" -> 2
      [] currency = "BYR" -> 300
      [] OTHER -> 10

\* _calculate_avg_salary_rub: <<>> is None; int() truncates
_calculate_avg_salary_rub(salary_data) ==
    LET from == IF salary_data.from = <<>> THEN 0 ELSE salary_data.from[1]
        to   == IF salary_data.to = <<>> THEN 0 ELSE salary_data.to[1]
        rate == RateTimesTen(salary_data.currency)
    IN  IF salary_data.kind # "dict" THEN <<>>
        ELSE IF from # 0 /\ to # 0 THEN << ((from + to) * rate) \div 20 >>
        ELSE IF from # 0 THEN << (from * 12 * rate) \div 100 >>
        ELSE IF to # 0 THEN << (to * 8 * rate) \div 100 >>
        ELSE <<>>

\* the first category, in the table's order, one of whose keywords is in one of
\* the texts: `for category, keywords in table.items(): for keyword in keywords`
\* mutant: the categories tried in reverse order
RECURSIVE LastCategory(_, _, _)
LastCategory(table, texts, default) ==
    IF table = <<>> THEN default
    ELSE LET k == Len(table)
         IN  IF \E j \in 1..Len(table[k].keywords) :
                   \E t \in texts : Contains(table[k].keywords[j], t)
             THEN table[k].category
             ELSE LastCategory(SubSeq(table, 1, k - 1), texts, default)

\* the classifiers' loop: for category, keywords in table.items(): for keyword in
\* keywords: if keyword in a text: return category; then the default
RECURSIVE FirstCategory(_, _, _)
FirstCategory(table, texts, default) ==
    IF table = <<>> THEN default
    ELSE IF \E k \in 1..Len(Head(table).keywords) :
              \E t \in texts : Contains(Head(table).keywords[k], t)
         THEN Head(table).category
         ELSE FirstCategory(Tail(table), texts, default)

EmployerName(vacancy) ==
    IF vacancy.employer.kind = "dict" THEN vacancy.employer.name ELSE <<>>

\* _classify_industry_segment, the table of this file (classification_config is absent)
_classify_industry_segment(vacancy) ==
    FirstCategory(segments_keywords,
                  {lower(vacancy.name), lower(EmployerName(vacancy))}, "drugoe")

\* _classify_position_level, the table of this file
_classify_position_level(vacancy) ==
    FirstCategory(levels_keywords, {lower(vacancy.name)}, "drugoe")

\* _extract_industrial_keywords: the keywords found, joined in set order
_extract_industrial_keywords(vacancy) ==
    {keywords_list[k] : k \in
        {j \in 1..Len(keywords_list) :
            \/ Contains(keywords_list[j], lower(vacancy.name))
            \/ Contains(keywords_list[j], lower(vacancy.snippet.requirement))}}

\* _parse_datetime: <<>> is None
_parse_datetime(date_str) ==
    CASE date_str = "2024-01-01T00:00:00+0300" -> <<"2024-01-01T00:00:00+03:00">>
      [] date_str = "2024-01-01 10:00:00" -> <<"2024-01-01T10:00:00">>
      [] date_str = "2024-01-01" -> <<"2024-01-01T00:00:00">>
      [] OTHER -> <<>>

\* _prepare_vacancy_data raises AttributeError: .get or .lower()/.upper() of None
PrepareRaises(vacancy) ==
    \/ vacancy.area.kind = "null"
    \/ vacancy.salary.kind = "null"
    \/ vacancy.salary.kind = "dict" /\ vacancy.salary.currency = "null"
    \/ vacancy.employer.kind = "null"
    \/ vacancy.snippet.kind = "null"
    \/ vacancy.snippet.kind = "dict" /\ vacancy.snippet.requirement_kind = "null"

\* _prepare_vacancy_data: the row of table vacancies (the columns with logic;
\* region, experience, schedule, employment are read like area, and
\* created_at, collected_at like published_at)
_prepare_vacancy_data(vacancy) ==
    LET salary_avg_rub == _calculate_avg_salary_rub(vacancy.salary)
    IN  [id |-> _generate_vacancy_id(vacancy),
         hh_id |-> vacancy.id,
         name |-> vacancy.name,
         name_cleaned |-> lower(vacancy.name),
         area |-> vacancy.area.name,
         salary_from |-> vacancy.salary.from,
         salary_to |-> vacancy.salary.to,
         salary_currency |-> vacancy.salary.currency,
         salary_avg_rub |-> salary_avg_rub,
         employer_name |-> EmployerName(vacancy),
         industry_segment |-> _classify_industry_segment(vacancy),
         position_level |-> _classify_position_level(vacancy),
         industrial_keywords |-> _extract_industrial_keywords(vacancy),
         key_skills_json |-> vacancy.key_skills,
         published_at |-> _parse_datetime(vacancy.published_at),
         has_salary |-> IF salary_avg_rub # <<>> /\ salary_avg_rub # <<0>> THEN 1 ELSE 0,
         is_industrial |-> 1]

\* mutant: INSERT into a table without PRIMARY KEY / UNIQUE constraints
InsertUnconstrained(table, row) == table (+) SetToBag({row})

\* mutant: INSERT OR REPLACE: the stored row gives way to the new one
InsertOrReplace(table, row) ==
    LET clash == {r \in BagToSet(table) : r.id = row.id \/ r.hh_id = row.hh_id}
        kept  == [r \in BagToSet(table) \ clash |-> table[r]]
    IN  kept (+) SetToBag({row})

\* INSERT OR IGNORE INTO vacancies: id is the PRIMARY KEY, hh_id is UNIQUE
InsertOrIgnore(table, row) ==
    IF \E r \in BagToSet(table) : r.id = row.id \/ r.hh_id = row.hh_id
    THEN table
    ELSE table (+) SetToBag({row})

\* _insert_skills_batch: one row per skill that has a name
RECURSIVE InsertSkills(_, _, _, _)
InsertSkills(table, vacancy_id, skills_list, i) ==
    IF i > Len(skills_list) THEN table
    ELSE IF skills_list[i] = ""
         THEN InsertSkills(table, vacancy_id, skills_list, i + 1)
         ELSE InsertSkills(
                 table (+) SetToBag({[vacancy_id |-> vacancy_id,
                                      skill_name |-> skills_list[i],
                                      frequency_rank |-> i]}),
                 vacancy_id, skills_list, i + 1)

_insert_skills_batch(table, vacancy_id, skills_list) ==
    InsertSkills(table, vacancy_id, skills_list, 1)

DbVacancies ==
    { FullVacancy("7", T_Slesar),
      [Vacancy("7", T_Inzhener) EXCEPT !.key_skills = <<"excel">>],
      [FullVacancy("007", T_Inzhener) EXCEPT !.key_skills = <<"tokar">>],
      Vacancy("8", T_Energetik),
      FullVacancy("x7", T_Slesar),
      Vacancy(NoId, T_Slesar),
      NonDict }

\* every vacancy an operation of the model is given
\* vacancies whose titles exercise the classifiers of db_manager.py
ClassifyVacancies ==
    { Vacancy("7", T_GenDirektor),
      Vacancy("8", T_MasterUchastka),
      [Vacancy("9", T_Inzhener) EXCEPT !.employer = Employer(T_Gazprom)],
      Vacancy("x7", T_Kladovschik),
      Vacancy("hh-8", <<>>),
      Vacancy("007", T_InzhenerEnergetik) }

\* a vacancy as the API returns it when no salary is given: "salary": null
NullFieldVacancies ==
    { [Vacancy("9", T_Energetik) EXCEPT !.salary = NullSalary] }

KnownVacancies ==
    MergerVacancies \cup DbVacancies \cup ClassifyVacancies \cup NullFieldVacancies

\* the filter's verdict and the prepared row of each known vacancy, evaluated
\* once (tables of _is_true_industrial_vacancy and _prepare_vacancy_data)
IsIndustrial == [v \in KnownVacancies |-> _is_true_industrial_vacancy(v)]

PreparedData ==
    [v \in KnownVacancies |->
        IF v.kind = "dict" /\ Truthy(v.id) /\ ~GenerateIdRaises(v) /\ ~PrepareRaises(v)
        THEN <<_prepare_vacancy_data(v)>>
        ELSE <<>>]

\* the loop of insert_vacancies_batch.  st: the tables inside the open
\* transaction (vac, sk), as of the last commit (c_vac, c_sk), the ids processed,
\* inserted_count, and whether an exception left the loop
RECURSIVE BatchLoop(_, _)
BatchLoop(batch, st) ==
    IF batch = <<>> THEN st
    ELSE LET vacancy == Head(batch)
             rest == Tail(batch)
         IN  IF vacancy.kind # "dict"
             THEN \* vacancy.get raises; so does the handler's vacancy.get('id')
                  \* when it logs, and that exception leaves the loop
                  IF st.inserted_count % LogEvery = 0
                  THEN [st EXCEPT !.aborted = TRUE]
                  ELSE BatchLoop(rest, st)
             ELSE IF ~Truthy(vacancy.id) THEN BatchLoop(rest, st)
             ELSE IF GenerateIdRaises(vacancy) THEN BatchLoop(rest, st)
             ELSE IF _generate_vacancy_id(vacancy) \in st.processed THEN BatchLoop(rest, st)
             ELSE IF ~IsIndustrial[vacancy] THEN BatchLoop(rest, st)
             ELSE IF PrepareRaises(vacancy) THEN BatchLoop(rest, st)
             ELSE LET vacancy_data == PreparedData[vacancy][1]
                      vac == InsertOrIgnore(st.vac, vacancy_data)
                      sk  == _insert_skills_batch(st.sk, vacancy_data.id, vacancy.key_skills)
                      n   == st.inserted_count + 1
                      commit == (n % batch_size = 0)
                  IN  BatchLoop(rest,
                        [vac |-> vac, sk |-> sk,
                         c_vac |-> IF commit THEN vac ELSE st.c_vac,
                         c_sk |-> IF commit THEN sk ELSE st.c_sk,
                         processed |-> st.processed \cup {vacancy_data.id},
                         inserted_count |-> n,
                         aborted |-> FALSE])

\* insert_vacancies_batch as a whole: the state after the call
insert_vacancies_batch(batch) ==
    IF batch = <<>>
    THEN [vac |-> tbl_vacancies, sk |-> tbl_skills, processed |-> processed_vacancy_ids,
          inserted_count |-> 0]
    ELSE LET st == BatchLoop(batch,
                     [vac |-> tbl_vacancies, sk |-> tbl_skills,
                      c_vac |-> tbl_vacancies, c_sk |-> tbl_skills,
                      processed |-> {}, inserted_count |-> 0, aborted |-> FALSE])
         IN  IF st.aborted
             THEN \* connection.rollback()
                  [vac |-> st.c_vac, sk |-> st.c_sk, processed |-> st.processed,
                   inserted_count |-> st.inserted_count]
             ELSE \* the final connection.commit()
                  [vac |-> st.vac, sk |-> st.sk, processed |-> st.processed,
                   inserted_count |-> st.inserted_count]

(***************************************************************************)
(* DataCleaner.clean_vacancies_dataframe (data_cleaner.py).                *)
(*   A DataFrame is the sequence of its rows.  A row's name is             *)
(*   [kind, text]: kind "absent" (the record has no name key), "null",     *)
(*   "number" (text holds its digits) or "str".  A column exists when a    *)
(*   record of the frame has the key; in these rows id "" and              *)
(*   published_at "" are absent keys.  The rows carry no salary, skills,   *)
(*   experience, schedule or employment keys, so steps 4, 6 and 7 leave    *)
(*   them alone.                                                           *)
(***************************************************************************)
T_NeUkazano == <<"N","e"," ","u","k","a","z","a","n","o">>

Name(kind, text) == [kind |-> kind, text |-> text]

CleanerRow(id, name, published_at) ==
    [id |-> id, name |-> name, published_at |-> published_at]

CleanerNames ==
    { Name("absent", <<>>), Name("null", <<>>), Name("number", T_Twelve),
      Name("str", <<>>), Name("str", T_Spaces),
      Name("str", T_GenDirektor), Name("str", T_TehDirektor),
      Name("str", T_InzhenerEnergetik), Name("str", T_Buhgalter),
      Name("str", T_Slesar) }

CleanerRows ==
    {CleanerRow(id, name, published_at) :
        id \in {NoId, "1"}, name \in CleanerNames,
        published_at \in {"", "2024-01-01T00:00:00+0300"}}

\* str.strip()
RECURSIVE lstrip(_)
lstrip(text) ==
    IF text # <<>> /\ Head(text) = " " THEN lstrip(Tail(text)) ELSE text

RECURSIVE rstrip(_)
rstrip(text) ==
    IF text # <<>> /\ text[Len(text)] = " "
    THEN rstrip(SubSeq(text, 1, Len(text) - 1))
    ELSE text

strip(text) == lstrip(rstrip(text))

isna(name) == name.kind \in {"absent", "null"}

\* _handle_missing_values on column name: fillna('Ne ukazano')
fillna(name) == IF isna(name) THEN Name("str", T_NeUkazano) ELSE name

\* the name column is float64 when every name of the frame is a number or
\* missing and one is missing: astype(str) then writes 12 as "12.0"
FloatNames(df) ==
    /\ \A i \in 1..Len(df) : df[i].name.kind # "str"
    /\ \E i \in 1..Len(df) : isna(df[i].name)

astype_str(name, as_float) ==
    IF name.kind = "number" /\ as_float THEN name.text \o <<".", "0">> ELSE name.text

\* _standardize_text_fields on column name: astype(str).str.lower().str.strip()
standardize(name, as_float) == Name("str", strip(lower(astype_str(name, as_float))))

\* classify_position_level(job_title), nested in _create_new_features
classify_position_level(job_title) ==
    IF job_title.kind # "str" THEN "unknown"
    ELSE FirstCategory(level_keywords, {lower(job_title.text)}, "other")

\* mutant: the default of the non-string branch used for every unmatched title
classify_industry_segment_other(job_title) ==
    IF job_title.kind # "str" THEN "other"
    ELSE FirstCategory(segment_keywords, {lower(job_title.text)}, "other")

\* classify_industry_segment(job_title), nested in _create_new_features
classify_industry_segment(job_title) ==
    IF job_title.kind # "str" THEN "other"
    ELSE FirstCategory(segment_keywords, {lower(job_title.text)}, "other_industry")

\* column name after steps 2 and 3, and the two features of step 8, per raw
\* name and dtype of the column
StandardName ==
    [name \in CleanerNames, as_float \in BOOLEAN |-> standardize(fillna(name), as_float)]

PositionLevel ==
    [name \in CleanerNames, as_float \in BOOLEAN |->
        classify_position_level(StandardName[name, as_float])]

IndustrySegment ==
    [name \in CleanerNames, as_float \in BOOLEAN |->
        classify_industry_segment(StandardName[name, as_float])]

HasColumn(df, column) ==
    \E i \in 1..Len(df) :
        CASE column = "id" -> df[i].id # NoId
          [] column = "name" -> df[i].name.kind # "absent"
          [] column = "published_at" -> df[i].published_at # ""

\* _clean_date_fields: rows whose published_at does not parse are removed
\* (the only date that parses here is the one valid timestamp)
_clean_date_fields(df) ==
    IF HasColumn(df, "published_at")
    THEN SelectSeq(df, LAMBDA row : row.published_at # "")
    ELSE df

\* _create_new_features: the columns position_level and industry_segment
_create_new_features(df, as_float) ==
    [i \in 1..Len(df) |->
        [id |-> df[i].id,
         name |-> StandardName[df[i].name, as_float].text,
         published_at |-> df[i].published_at,
         position_level |-> PositionLevel[df[i].name, as_float],
         industry_segment |-> IndustrySegment[df[i].name, as_float]]]

\* clean_vacancies_dataframe: raised names the column of the KeyError, if any
clean_vacancies_dataframe(df) ==
    IF df = <<>> THEN [raised |-> "", rows |-> <<>>]
    ELSE IF ~HasColumn(df, "id") THEN [raised |-> "id", rows |-> <<>>]
    ELSE IF ~HasColumn(df, "name") THEN [raised |-> "name", rows |-> <<>>]
    ELSE [raised |-> "",
          rows |-> _create_new_features(_clean_date_fields(drop_duplicates(df)),
                                        FloatNames(df))]

(***************************************************************************)
(* error_estimation.py.                                                    *)
(*   A float is [nan, v]: v counts thousandths, rounded down; nan is NaN.  *)
(*   A Series is given by how many of its values are ValueA, how many      *)
(*   ValueB, how many NaN and how many zero or negative: the estimators    *)
(*   depend on the order of the values nowhere.                            *)
(***************************************************************************)
NaN == [nan |-> TRUE, v |-> 0]

Num(v) == [nan |-> FALSE, v |-> v]

\* float comparisons: any comparison with NaN is False
Leq(x, y) == ~x.nan /\ ~y.nan /\ x.v <= y.v

Less(x, y) == ~x.nan /\ ~y.nan /\ x.v < y.v

Plus(x, y) == IF x.nan \/ y.nan THEN NaN ELSE Num(x.v + y.v)

Minus(x, y) == IF x.nan \/ y.nan THEN NaN ELSE Num(x.v - y.v)

\* product of two floats in thousandths
Times(x, y) == IF x.nan \/ y.nan THEN NaN ELSE Num((x.v * y.v) \div 1000)

\* the integer square root, by bisection
RECURSIVE ISqrtLoop(_, _, _)
ISqrtLoop(x, lo, hi) ==
    IF lo >= hi THEN lo
    ELSE LET mid == (lo + hi + 1) \div 2
         IN  IF mid * mid <= x THEN ISqrtLoop(x, mid, hi) ELSE ISqrtLoop(x, lo, mid - 1)

ISqrt(x) == ISqrtLoop(x, 0, 46340)

ValueA == 100
ValueB == 300

Series(a, b, nan, nonpos) == [a |-> a, b |-> b, nan |-> nan, nonpos |-> nonpos]

\* len(data)
SizeOf(data) == data.a + data.b + data.nan + data.nonpos

\* clean_data = data.dropna(); clean_data = clean_data[clean_data > 0]
CleanData(data) == Series(data.a, data.b, 0, 0)

\* clean_data.mean()
MeanOf(data) ==
    Num(((ValueA * data.a + ValueB * data.b) * 1000) \div (data.a + data.b))

\* clean_data.std(ddof=1): NaN for a single value
StdOf(data) ==
    LET n == data.a + data.b
    IN  IF n < 2 THEN NaN
        ELSE Num((ValueB - ValueA) * ISqrt((data.a * data.b * 1000000) \div (n * (n - 1))))

MinOf(data) == Num(1000 * (IF data.a > 0 THEN ValueA ELSE ValueB))

MaxOf(data) == Num(1000 * (IF data.b > 0 THEN ValueB ELSE ValueA))

\* clean_data.median()
MedianOf(data) ==
    IF data.a > data.b THEN Num(1000 * ValueA)
    ELSE IF data.a < data.b THEN Num(1000 * ValueB)
    ELSE Num(500 * (ValueA + ValueB))

\* confidence_level: the default, 0.95
confidence_level == Num(950)

\* stats.t.ppf(0.975, df): NaN for df = 0
TCritical ==
    <<12706, 4303, 3182, 2776, 2571, 2447, 2365, 2306, 2262, 2228,
      2201, 2179, 2160, 2145, 2131, 2120, 2110, 2101, 2093, 2086,
      2080, 2074, 2069, 2064, 2060, 2056, 2052, 2048, 2045, 2042,
      2040, 2037, 2035>>

t_ppf(df) == IF df < 1 THEN NaN ELSE Num(TCritical[df])

\* stats.norm.ppf(0.975)
z_critical == Num(1960)

SmallSample == 30

ZeroCi ==
    [mean |-> Num(0), std |-> Num(0), n |-> 0, sem |-> Num(0), ci_lower |-> Num(0),
     ci_upper |-> Num(0), margin_of_error |-> Num(0), confidence_level |-> confidence_level]

\* mutant: the lower bound clamped at zero, as the proportion interval does
calculate_confidence_interval_clamped(data) ==
    LET clean_data == CleanData(data)
        n == SizeOf(clean_data)
    IN  IF n = 0 THEN ZeroCi
        ELSE LET mean == MeanOf(clean_data)
                 std == StdOf(clean_data)
                 sem == IF std.nan THEN NaN ELSE Num((std.v * 1000) \div ISqrt(n * 1000000))
                 margin_of_error ==
                     IF n < SmallSample THEN Times(t_ppf(n - 1), sem)
                     ELSE Times(z_critical, sem)
                 lower_bound == Minus(mean, margin_of_error)
             IN  [mean |-> mean, std |-> std, n |-> n, sem |-> sem,
                  ci_lower |-> IF ~lower_bound.nan /\ lower_bound.v < 0 THEN Num(0) ELSE lower_bound,
                  ci_upper |-> Plus(mean, margin_of_error),
                  margin_of_error |-> margin_of_error,
                  confidence_level |-> confidence_level]

\* mutant: the t branch taken for n <= 30
calculate_confidence_interval_leq(data) ==
    LET clean_data == CleanData(data)
        n == SizeOf(clean_data)
    IN  IF n = 0 THEN ZeroCi
        ELSE LET mean == MeanOf(clean_data)
                 std == StdOf(clean_data)
                 sem == IF std.nan THEN NaN ELSE Num((std.v * 1000) \div ISqrt(n * 1000000))
                 margin_of_error ==
                     IF n <= SmallSample THEN Times(t_ppf(n - 1), sem)
                     ELSE Times(z_critical, sem)
             IN  [mean |-> mean, std |-> std, n |-> n, sem |-> sem,
                  ci_lower |-> Minus(mean, margin_of_error),
                  ci_upper |-> Plus(mean, margin_of_error),
                  margin_of_error |-> margin_of_error,
                  confidence_level |-> confidence_level]

calculate_confidence_interval(data) ==
    LET clean_data == CleanData(data)
        n == SizeOf(clean_data)
    IN  IF n = 0 THEN ZeroCi
        ELSE LET mean == MeanOf(clean_data)
                 std == StdOf(clean_data)
                 sem == IF std.nan THEN NaN ELSE Num((std.v * 1000) \div ISqrt(n * 1000000))
                 margin_of_error ==
                     IF n < SmallSample THEN Times(t_ppf(n - 1), sem)
                     ELSE Times(z_critical, sem)
             IN  [mean |-> mean, std |-> std, n |-> n, sem |-> sem,
                  ci_lower |-> Minus(mean, margin_of_error),
                  ci_upper |-> Plus(mean, margin_of_error),
                  margin_of_error |-> margin_of_error,
                  confidence_level |-> confidence_level]

ZeroProportion ==
    [proportion |-> Num(0), percentage |-> Num(0), n |-> 0, ci_lower |-> Num(0),
     ci_upper |-> Num(0), margin_of_error |-> Num(0), confidence_level |-> confidence_level]

\* count / total and what follows it; clipped: the bounds go through max(0, .) and min(1, .)
ProportionWith(count, total, clipped) ==
    LET proportion == Num((count * 1000) \div total)
        se_proportion ==
            IF count * (total - count) < 0 THEN NaN
            ELSE Num(ISqrt((count * (total - count) * 1000000) \div (total * total * total)))
        margin_of_error == Times(z_critical, se_proportion)
        low == Minus(proportion, margin_of_error)
        high == Plus(proportion, margin_of_error)
        \* max(0, x) and min(1, x): a NaN x never wins the comparison
        ci_lower_prop == IF ~clipped \/ Less(Num(0), low) THEN low ELSE Num(0)
        ci_upper_prop == IF ~clipped \/ Less(high, Num(1000)) THEN high ELSE Num(1000)
    IN  [raised |-> "",
         value |-> [proportion |-> proportion,
                    percentage |-> Num(proportion.v * 100),
                    n |-> total,
                    ci_lower |-> Num(ci_lower_prop.v * 100),
                    ci_upper |-> Num(ci_upper_prop.v * 100),
                    margin_of_error |->
                        IF margin_of_error.nan THEN NaN ELSE Num(margin_of_error.v * 100),
                    confidence_level |-> confidence_level]]

\* mutant: the bounds are not clipped to [0, 1]
ProportionBodyUnclipped(count, total) == ProportionWith(count, total, FALSE)

ProportionBody(count, total) == ProportionWith(count, total, TRUE)

\* mutant: the total == 0 guard is missing
calculate_proportion_confidence_interval_unguarded(count, total) ==
    IF total = 0 THEN [raised |-> "ZeroDivisionError", value |-> ZeroProportion]
    ELSE ProportionBody(count, total)

calculate_proportion_confidence_interval(count, total) ==
    IF total = 0 THEN [raised |-> "", value |-> ZeroProportion]
    ELSE ProportionBody(count, total)

\* n_bootstrap: the default
n_bootstrap_default == 1000

\* n_bootstrap as calculate_statistical_summary passes it
n_bootstrap_summary == 1000

Statistics == {"mean", "median", "std", "mode"}

\* np.random.choice(clean_data, size=n, replace=True): a resample of a Series
\* of ValueA and ValueB is known by k, the number of ValueB drawn
Resample(n, k) == Series(n - k, k, 0, 0)

ResampleDraws(clean_data) ==
    LET n == SizeOf(clean_data)
    IN  { k \in 0..n : (clean_data.b = 0 => k = 0) /\ (clean_data.a = 0 => k = n) }

\* bootstrap_func(bootstrap_sample)
bootstrap_func(statistic, bootstrap_sample) ==
    CASE statistic = "mean" -> MeanOf(bootstrap_sample)
      [] statistic = "median" -> MedianOf(bootstrap_sample)
      [] statistic = "std" -> StdOf(bootstrap_sample)
      [] OTHER -> NaN

\* np.percentile(x, q) interpolates between the elements of sorted x at
\* floor((len(x) - 1) * q / 100) and the next one; q in thousandths of 1
PercentileIndex(len, q) == ((len - 1) * q) \div 1000

PercentileFraction(len, q) == ((len - 1) * q) % 1000

lower_percentile == 25
upper_percentile == 975

\* the positions of sorted bootstrap_statistics that the two percentiles read
PercentilePositions(n_bootstrap) ==
    LET lo(q) == PercentileIndex(n_bootstrap, q)
        hi(q) == IF PercentileFraction(n_bootstrap, q) = 0 THEN lo(q) ELSE lo(q) + 1
    IN  <<lo(lower_percentile), hi(lower_percentile),
          lo(upper_percentile), hi(upper_percentile)>>

\* the sequences of m resamples whose statistics stand in sorted order
RECURSIVE SortedDraws(_, _, _)
SortedDraws(m, ks, stats_of) ==
    IF m = 0 THEN {<<>>}
    ELSE UNION { { Append(t, k) :
                     k \in { d \in ks : \/ t = <<>>
                                        \/ stats_of[t[Len(t)]].nan
                                        \/ stats_of[d].nan
                                        \/ stats_of[t[Len(t)]].v <= stats_of[d].v } } :
                 t \in SortedDraws(m - 1, ks, stats_of) }

\* What the n_bootstrap random resamples can leave at those positions: draws[i]
\* is the resample whose statistic stands at position PercentilePositions[i].
\* Every assignment in sorted order is the outcome of some run of the loop.
BootstrapOutcomes(clean_data, n_bootstrap, statistic) ==
    LET n == SizeOf(clean_data)
        pos == PercentilePositions(n_bootstrap)
        places == {pos[i] : i \in 1..4}
        rank(p) == Cardinality({q \in places : q <= p})
        ks == ResampleDraws(clean_data)
        stats_of == [k \in ks |-> bootstrap_func(statistic, Resample(n, k))]
    IN  IF n = 0 THEN {<<0, 0, 0, 0>>}      \* the loop is not reached
        ELSE { [i \in 1..4 |-> t[rank(pos[i])]] :
                 t \in SortedDraws(Cardinality(places), ks, stats_of) }

Percentile(below, above, fraction) ==
    IF below.nan \/ above.nan THEN NaN
    ELSE Num(below.v + (fraction * (above.v - below.v)) \div 1000)

ZeroBootstrap(n_bootstrap) ==
    [statistic_value |-> Num(0), ci_lower |-> Num(0), ci_upper |-> Num(0),
     n_bootstrap |-> n_bootstrap, confidence_level |-> confidence_level]

\* np.percentile(bootstrap_statistics, q)
PercentileOf(stats_of, draws, n_bootstrap, q) ==
    IF q = lower_percentile
    THEN Percentile(stats_of[draws[1]], stats_of[draws[2]], PercentileFraction(n_bootstrap, q))
    ELSE Percentile(stats_of[draws[3]], stats_of[draws[4]], PercentileFraction(n_bootstrap, q))

\* resamples and size record the loop: how many resamples were drawn, of what size
BootstrapBody(clean_data, n_bootstrap, statistic, draws, q_lower, q_upper) ==
    LET n == SizeOf(clean_data)
        stats_of == [k \in 0..n |-> bootstrap_func(statistic, Resample(n, k))]
    IN  [raised |-> "",
         resamples |-> n_bootstrap,
         size |-> n,
         value |->
            [statistic_value |-> bootstrap_func(statistic, clean_data),
             ci_lower |-> PercentileOf(stats_of, draws, n_bootstrap, q_lower),
             ci_upper |-> PercentileOf(stats_of, draws, n_bootstrap, q_upper),
             n_bootstrap |-> n_bootstrap,
             confidence_level |-> confidence_level]]

BootstrapWith(data, n_bootstrap, statistic, draws, q_lower, q_upper) ==
    LET clean_data == CleanData(data)
    IN  IF SizeOf(clean_data) = 0
        THEN [raised |-> "", resamples |-> 0, size |-> 0, value |-> ZeroBootstrap(n_bootstrap)]
        ELSE IF statistic \notin {"mean", "median", "std"}
        THEN [raised |-> "ValueError", resamples |-> 0, size |-> 0, value |-> <<>>]
        ELSE BootstrapBody(clean_data, n_bootstrap, statistic, draws, q_lower, q_upper)

\* mutant: the two percentiles exchanged
bootstrap_confidence_interval_exchanged(data, n_bootstrap, statistic, draws) ==
    BootstrapWith(data, n_bootstrap, statistic, draws, upper_percentile, lower_percentile)

bootstrap_confidence_interval(data, n_bootstrap, statistic, draws) ==
    BootstrapWith(data, n_bootstrap, statistic, draws, lower_percentile, upper_percentile)

\* the empty dict
EmptyDict == <<>>

ZeroSummary ==
    [n |-> 0, mean |-> Num(0), median |-> Num(0), std |-> Num(0), min |-> Num(0),
     max |-> Num(0), confidence_interval |-> EmptyDict,
     bootstrap_confidence_interval |-> EmptyDict, sem |-> Num(0)]

calculate_statistical_summary(data, draws) ==
    LET clean_data == CleanData(data)
    IN  IF SizeOf(clean_data) = 0 THEN [raised |-> "", value |-> ZeroSummary]
        ELSE LET interval == calculate_confidence_interval(clean_data)
                 bootstrap_ci ==
                     bootstrap_confidence_interval(clean_data, n_bootstrap_summary, "mean", draws)
             IN  [raised |-> bootstrap_ci.raised,
                  value |->
                     [n |-> SizeOf(clean_data),
                      mean |-> MeanOf(clean_data),
                      median |-> MedianOf(clean_data),
                      std |-> StdOf(clean_data),
                      min |-> MinOf(clean_data),
                      max |-> MaxOf(clean_data),
                      confidence_interval |-> interval,
                      bootstrap_confidence_interval |-> bootstrap_ci.value,
                      sem |-> interval.sem]]

\* no estimator has run
IdleStats ==
    /\ sample = Series(0, 0, 0, 0)
    /\ ci = ZeroCi
    /\ prop_in = [count |-> 0, total |-> 0]
    /\ prop = [raised |-> "", value |-> ZeroProportion]
    /\ boot_in = [n_bootstrap |-> 0, statistic |-> ""]
    /\ boot = [raised |-> "", resamples |-> 0, size |-> 0, value |-> EmptyDict]
    /\ summary = [raised |-> "", value |-> EmptyDict]
    /\ spc = "idle"

\* no filter has run
IdleFilter ==
    /\ flt_in = <<>>
    /\ flt_kept = <<>>
    /\ flt_removed = <<>>
    /\ fpc = "idle"

\* _is_true_industrial_vacancy has not been called
NotChecked == [result |-> "none", vacancies_filtered_out |-> 0]

IdleIndustrial ==
    /\ ind_in = <<>>
    /\ ind_out = NotChecked

\* DataValidator.__init__: validation_results = {}
IdleValidator == validation_report = <<>>

\* VacancyMerger.__init__: the members of self.stats generate_report divides by
\* or tests; an empty dict is the empty sequence
NewMergerStats ==
    [total_files_processed |-> 0, total_vacancies_before |-> 0,
     total_vacancies_after |-> 0, duplicates_removed |-> 0,
     salary_stats |-> <<>>, collection_methods |-> <<>>]

IdleReport == merger = [stats |-> NewMergerStats, calls |-> 0, outcome |-> "none"]

\* UltraIndustrialClient.__init__: nothing collected, no coroutine created
NewClient ==
    [processed_vacancy_ids |-> {},
     stats |-> [vacancies_collected |-> 0, vacancies_filtered_out |-> 0,
                regions_processed |-> 0, consecutive_empty_regions |-> 0],
     industry_vacancies |-> <<>>,
     vacancies |-> <<>>,
     pc |-> "start"]

IdleCollector ==
    /\ collector = NewClient
    /\ tasks = <<>>

\* max_concurrent_requests: the permits of rate_limit_semaphore (25 in
\* hh_api_client.py, 20 in hh_archiv.py)
MaxConcurrent == 2

\* no _send_request call exists yet; every permit is free
IdleRequests ==
    requests = [permits |-> MaxConcurrent,
                calls |-> <<>>,
                stats |-> [total_requests |-> 0, successful_requests |-> 0,
                           failed_requests |-> 0]]

IdleTools ==
    /\ IdleFilter
    /\ IdleIndustrial
    /\ IdleValidator
    /\ IdleReport
    /\ IdleCollector
    /\ IdleRequests

(***************************************************************************)
(* Merger: initial state and operations.                                   *)
(***************************************************************************)
\* after create_connection and create_tables: empty tables
\* no call is under observation
NotObserved == [called |-> FALSE, op |-> "", batch |-> <<>>, before |-> EmptyBag]

InitDbState ==
    /\ tbl_vacancies = EmptyBag
    /\ tbl_skills = EmptyBag
    /\ processed_vacancy_ids = {}
    /\ last_return = 0
    /\ loads = 0
    /\ observed = NotObserved

BadFileKinds == {"list", "notalist", "unreadable"}

InitStats ==
    [total_files_processed |-> 0, total_vacancies_before |-> 0,
     total_vacancies_after |-> 0, duplicates_removed |-> 0]

InitMerger ==
    /\ \E L \in SeqsUpTo(MergerVacancies, MaxLen) :
       \E cut \in 0..Len(L) :
       \E middle \in BadFileKinds :
          files = << [kind |-> "list", data |-> SubSeq(L, 1, cut)],
                     [kind |-> middle, data |-> <<>>],
                     [kind |-> "list", data |-> SubSeq(L, cut + 1, Len(L))] >>
    /\ all_vacancies = <<>>
    /\ dedup_in = <<>>
    /\ unique_vacancies = <<>>
    /\ stats = InitStats
    /\ df_in = <<>>
    /\ df_out = <<>>
    /\ cleaned_df = [raised |-> "", rows |-> <<>>]
    /\ mpc = "start"
    /\ InitDbState
    /\ IdleStats
    /\ IdleTools

LoadAndMergeFiles ==
    /\ mpc = "start"
    /\ all_vacancies' = load_and_merge_files(files)
    /\ stats' = [stats EXCEPT
                   !.total_files_processed = @ + FilesProcessed(files),
                   !.total_vacancies_before = Len(load_and_merge_files(files))]
    /\ mpc' = "loaded"
    /\ UNCHANGED <<files, dedup_in, unique_vacancies, df_in, df_out, cleaned_df, dbVars, statsVars, toolVars>>

\* mutant: duplicates_removed counts the records whose id was seen before
DedupStatsRepeatedIds(st, vacancies, unique) ==
    [st EXCEPT
       !.duplicates_removed =
           Cardinality({i \in 1..Len(vacancies) :
                          \E j \in 1..(i - 1) : vacancies[j].id = vacancies[i].id}),
       !.total_vacancies_after = Len(unique)]

\* remove_duplicates: the statistics it leaves in self.stats
DedupStats(st, vacancies, unique) ==
    [st EXCEPT
       !.duplicates_removed = Len(vacancies) - Len(unique),
       !.total_vacancies_after = Len(unique)]

RemoveDuplicatesCall(vacancies, next) ==
    /\ dedup_in' = vacancies
    /\ unique_vacancies' = remove_duplicates(vacancies)
    /\ stats' = DedupStats(stats, vacancies, remove_duplicates(vacancies))
    /\ mpc' = next
    /\ UNCHANGED <<files, all_vacancies, df_in, df_out, cleaned_df, dbVars, statsVars, toolVars>>

\* merge_and_analyze / the test: remove_duplicates(load_and_merge_files(...))
RemoveDuplicates ==
    /\ mpc = "loaded"
    /\ RemoveDuplicatesCall(all_vacancies, "deduped")

\* a further run over the already deduplicated list
RemoveDuplicatesAgain ==
    /\ mpc = "deduped"
    /\ RemoveDuplicatesCall(unique_vacancies, "rerun")

\* DataCleaner.clean_vacancies_dataframe, step 1, on the loaded rows
CleanerRemoveDuplicates ==
    /\ mpc = "loaded"
    /\ df_in' = all_vacancies
    /\ df_out' = drop_duplicates(all_vacancies)
    /\ mpc' = "cleaned"
    /\ UNCHANGED <<files, all_vacancies, dedup_in, unique_vacancies, stats, cleaned_df, dbVars, statsVars, toolVars>>

CleanerRemoveDuplicatesAgain ==
    /\ mpc = "cleaned"
    /\ df_in' = df_out
    /\ df_out' = drop_duplicates(df_out)
    /\ mpc' = "recleaned"
    /\ UNCHANGED <<files, all_vacancies, dedup_in, unique_vacancies, stats, cleaned_df, dbVars, statsVars, toolVars>>

NextMerger ==
    \/ LoadAndMergeFiles
    \/ RemoveDuplicates
    \/ RemoveDuplicatesAgain
    \/ CleanerRemoveDuplicates
    \/ CleanerRemoveDuplicatesAgain

SpecMerger == InitMerger /\ [][NextMerger]_vars


(***************************************************************************)
(* Database: initial state and operations.                                 *)
(***************************************************************************)
\* the merger is not used
IdleMerger ==
    /\ files = <<>>
    /\ all_vacancies = <<>>
    /\ dedup_in = <<>>
    /\ unique_vacancies = <<>>
    /\ stats = InitStats
    /\ df_in = <<>>
    /\ df_out = <<>>
    /\ cleaned_df = [raised |-> "", rows |-> <<>>]
    /\ mpc = "idle"

InsertVacanciesBatchEffect(batch) ==
    /\ loads < MaxLoads
    /\ LET after == insert_vacancies_batch(batch)
       IN  /\ tbl_vacancies' = after.vac
           /\ tbl_skills' = after.sk
           /\ processed_vacancy_ids' = after.processed
           /\ last_return' = after.inserted_count
    /\ loads' = loads + 1
    /\ UNCHANGED <<mergerVars, statsVars, toolVars>>

InsertVacanciesBatchCall(batch) ==
    /\ InsertVacanciesBatchEffect(batch)
    /\ UNCHANGED observed

\* load_industrial_data_from_json: the file's list goes to insert_vacancies_batch
LoadIndustrialDataFromJson ==
    \E batch \in SeqsUpTo(DbVacancies, MaxBatch) : InsertVacanciesBatchCall(batch)

\* insert_vacancy: insert_vacancies_batch([vacancy])
InsertVacancy ==
    \E vacancy \in DbVacancies : InsertVacanciesBatchCall(<<vacancy>>)

InitDb == IdleMerger /\ InitDbState /\ IdleStats /\ IdleTools

NextDb ==
    \/ LoadIndustrialDataFromJson
    \/ InsertVacancy

SpecDb == InitDb /\ [][NextDb]_vars

(***************************************************************************)
(* Merged list loaded into the database.                                   *)
(***************************************************************************)
InitKeys ==
    /\ \E L \in SeqsUpTo(MergerVacancies, MaxLen) :
          files = << [kind |-> "list", data |-> L] >>
    /\ all_vacancies = <<>>
    /\ dedup_in = <<>>
    /\ unique_vacancies = <<>>
    /\ stats = InitStats
    /\ df_in = <<>>
    /\ df_out = <<>>
    /\ cleaned_df = [raised |-> "", rows |-> <<>>]
    /\ mpc = "start"
    /\ InitDbState
    /\ IdleStats
    /\ IdleTools

\* load_industrial_data_from_json on a collected file, not merged
LoadCollectedFile ==
    /\ mpc = "loaded"
    /\ InsertVacanciesBatchCall(all_vacancies)

\* load_industrial_data_from_json on the merged, deduplicated file
LoadMergedFile ==
    /\ mpc = "deduped"
    /\ InsertVacanciesBatchCall(unique_vacancies)

NextKeys ==
    \/ LoadAndMergeFiles
    \/ RemoveDuplicates
    \/ LoadCollectedFile
    \/ LoadMergedFile

SpecKeys == InitKeys /\ [][NextKeys]_vars

(***************************************************************************)
(* Classification: a run cleans one DataFrame or loads records one by one. *)
(***************************************************************************)
CleanVacanciesDataframe ==
    /\ mpc = "idle"
    /\ loads = 0
    /\ \E df \in SeqsUpTo(CleanerRows, MaxRows) :
          /\ df_in' = df
          /\ cleaned_df' = clean_vacancies_dataframe(df)
    /\ mpc' = "cleaned_all"
    /\ UNCHANGED <<files, all_vacancies, dedup_in, unique_vacancies, stats, df_out, dbVars, statsVars, toolVars>>

InsertTitledVacancy ==
    /\ mpc = "idle"
    /\ \E vacancy \in ClassifyVacancies : InsertVacanciesBatchCall(<<vacancy>>)

NextClassify ==
    \/ CleanVacanciesDataframe
    \/ InsertTitledVacancy

SpecClassify == InitDb /\ [][NextClassify]_vars

(***************************************************************************)
(* Claims about merging and deduplication.                                 *)
(***************************************************************************)
IdsOf(s) == {s[i].id : i \in 1..Len(s)} \ {NoId}

FirstIndex(s, id) ==
    CHOOSE i \in 1..Len(s) : s[i].id = id /\ \A j \in 1..(i - 1) : s[j].id # id

Occurrences(s, id) == Cardinality({i \in 1..Len(s) : s[i].id = id})

\* C1: after remove_duplicates the output holds exactly one record per distinct
\* identifier of the input, that record is the identifier's first occurrence in
\* the input, and the output is in first-seen order; so N identifiers, each
\* occurring twice, give exactly N records.
C1_OnePerIdFirstSeenOrder ==
    mpc \in {"deduped", "rerun"} =>
        LET inp == dedup_in
            out == unique_vacancies
        IN  /\ Len(out) = Cardinality(IdsOf(inp))
            /\ \A id \in IdsOf(inp) :
                 \E j \in 1..Len(out) :
                    /\ out[j] = inp[FirstIndex(inp, id)]
                    /\ \A k \in 1..Len(out) : out[k].id = id => k = j
            /\ \A j, k \in 1..Len(out) :
                 j < k => FirstIndex(inp, out[j].id) < FirstIndex(inp, out[k].id)

\* C1 witness: two identifiers, each occurring twice with different contents,
\* have been deduplicated to two records
C1_Witness ==
    /\ mpc = "deduped"
    /\ Len(dedup_in) = 4
    /\ Cardinality(IdsOf(dedup_in)) = 2
    /\ \A id \in IdsOf(dedup_in) :
         /\ Occurrences(dedup_in, id) = 2
         /\ \E i \in 1..4 : dedup_in[i].id = id /\ dedup_in[i] # dedup_in[FirstIndex(dedup_in, id)]
    /\ Len(unique_vacancies) = 2

NoRepeatedId(s) == \A i, j \in 1..Len(s) : s[i].id = s[j].id => i = j

\* C2: deduplication is idempotent: a second run over the result of a first run
\* returns that result unchanged (VacancyMerger.remove_duplicates and
\* DataCleaner._remove_duplicates), and a list that is already deduplicated (no
\* identifier repeated, every record identified) comes back unchanged.
C2_DedupIdempotent ==
    /\ mpc = "rerun" => unique_vacancies = dedup_in
    /\ mpc = "recleaned" => df_out = df_in
    /\ (mpc \in {"deduped", "rerun"} /\ NoRepeatedId(dedup_in) /\ NoId \notin {dedup_in[i].id : i \in 1..Len(dedup_in)})
          => unique_vacancies = dedup_in
    /\ (mpc \in {"cleaned", "recleaned"} /\ NoRepeatedId(df_in)) => df_out = df_in

\* C2 witness: a list with duplicates was deduplicated and the result of at
\* least two records was deduplicated again
C2_Witness ==
    /\ mpc = "rerun"
    /\ Len(unique_vacancies) >= 2
    /\ Len(all_vacancies) > Len(unique_vacancies)

\* position in the merged list of record p of file f
MergedIndex(f, p) ==
    LET before == {g \in 1..(f - 1) : files[g].kind = "list"}
        RECURSIVE Sum(_)
        Sum(S) == IF S = {} THEN 0
                  ELSE LET g == CHOOSE x \in S : TRUE
                       IN  Len(files[g].data) + Sum(S \ {g})
    IN  Sum(before) + p

FilePositions ==
    {<<f, p>> \in (1..Len(files)) \X (1..MaxLen + 1) :
        files[f].kind = "list" /\ p <= Len(files[f].data)}

Earlier(a, b) == a[1] < b[1] \/ (a[1] = b[1] /\ a[2] < b[2])

\* the earliest place (file, then position in the file) where id occurs
EarliestPlace(id) ==
    CHOOSE a \in FilePositions :
        /\ files[a[1]].data[a[2]].id = id
        /\ \A b \in FilePositions : files[b[1]].data[b[2]].id = id => ~Earlier(b, a)

\* C3: the merged list is the files' records in input order (files in the order
\* given, records in file order), and after remove_duplicates the record kept for
\* an identifier is the one from the earliest file holding it; the output follows
\* that order.
C3_EarliestFileWins ==
    /\ mpc # "start" =>
         /\ Len(all_vacancies) = Cardinality(FilePositions)
         /\ \A a \in FilePositions :
              all_vacancies[MergedIndex(a[1], a[2])] = files[a[1]].data[a[2]]
    /\ mpc = "deduped" =>
         /\ \A id \in IdsOf(all_vacancies) :
              LET a == EarliestPlace(id)
              IN  /\ \E j \in 1..Len(unique_vacancies) :
                        unique_vacancies[j] = files[a[1]].data[a[2]]
                  /\ \A j \in 1..Len(unique_vacancies) :
                        unique_vacancies[j].id = id
                           => unique_vacancies[j] = files[a[1]].data[a[2]]
         /\ \A j, k \in 1..Len(unique_vacancies) :
              j < k => Earlier(EarliestPlace(unique_vacancies[j].id),
                               EarliestPlace(unique_vacancies[k].id))

\* C3 witness: an identifier is in the first and in the last file with different
\* contents, and the merged list has been deduplicated
C3_Witness ==
    /\ mpc = "deduped"
    /\ \E p \in 1..Len(files[1].data), q \in 1..Len(files[3].data) :
          /\ Truthy(files[1].data[p].id)
          /\ files[1].data[p].id = files[3].data[q].id
          /\ files[1].data[p] # files[3].data[q]
          /\ \E j \in 1..Len(unique_vacancies) : unique_vacancies[j] = files[1].data[p]

(***************************************************************************)
(* Claims about records without an identifier.                             *)
(***************************************************************************)
TripleOf(v) == <<v.name, v.employer, v.area>>

IdlessIn(s) == {i \in 1..Len(s) : s[i].id = NoId}

Rows(table) == BagToSet(table)

RowsWithHhId(table, hh_id) == {r \in Rows(table) : r.hh_id = hh_id}

\* C5: after any sequence of insert_vacancies_batch / insert_vacancy /
\* load_industrial_data_from_json calls the vacancies table holds at most one
\* row per external identifier (hh_id), and no row twice.
C5_OneRowPerHhId ==
    /\ \A r \in Rows(tbl_vacancies) : CopiesIn(r, tbl_vacancies) = 1
    /\ \A r1, r2 \in Rows(tbl_vacancies) : r1.hh_id = r2.hh_id => r1 = r2

\* C5 witness: the same record went through two calls (its skills were written
\* twice, which only happens in separate calls) and the table holds its row
C5_Witness ==
    /\ loads >= 2
    /\ \E r \in Rows(tbl_vacancies) : r.hh_id = "7" /\ r.name = T_Slesar
    /\ \E s \in Rows(tbl_skills) :
          s.vacancy_id = 7 /\ s.skill_name = "svarka" /\ CopiesIn(s, tbl_skills) >= 2

valid_levels ==
    {"worker", "specialist", "engineer", "leadership", "executive", "other", "unknown"}

valid_segments ==
    {"machinery", "metallurgy", "chemical", "energy", "oil_gas", "construction",
     "other_industry"}

\* the categories of a table one of whose keywords is a substring of the text
MatchingCategories(table, text) ==
    {k \in 1..Len(table) :
        \E j \in 1..Len(table[k].keywords) : Contains(table[k].keywords[j], text)}

CleanerTexts == {StandardName[name, as_float].text : name \in CleanerNames, as_float \in BOOLEAN}

DbTexts ==
    {lower(v.name) : v \in KnownVacancies} \cup {lower(EmployerName(v)) : v \in KnownVacancies}

LevelMatches == [text \in CleanerTexts |-> MatchingCategories(level_keywords, text)]

SegmentMatches == [text \in CleanerTexts |-> MatchingCategories(segment_keywords, text)]

DbLevelMatches == [text \in DbTexts |-> MatchingCategories(levels_keywords, text)]

DbSegmentMatches == [text \in DbTexts |-> MatchingCategories(segments_keywords, text)]

Earliest(table, matches, default) ==
    IF matches = {} THEN default
    ELSE table[CHOOSE k \in matches : \A m \in matches : k <= m].category

CleanedRows == {cleaned_df.rows[i] : i \in 1..Len(cleaned_df.rows)}

EmptyTitles == {<<>>, lower(T_NeUkazano)}

\* C7 as stated: for every record whose title is empty or missing the
\* classifiers return their default category and nothing raises: cleaning a
\* frame whose records have identifiers completes, and every row whose title
\* was empty or missing carries the defaults; no stored row with an empty
\* title carries anything but the defaults.
C7_EmptyTitleDefaultNeverRaises ==
    /\ (mpc = "cleaned_all" /\ HasColumn(df_in, "id")) =>
          /\ cleaned_df.raised = ""
          /\ \A row \in CleanedRows :
                row.name \in EmptyTitles =>
                   row.position_level = "other" /\ row.industry_segment = "other_industry"
    /\ \A r \in BagToSet(tbl_vacancies) :
          r.name = <<>> => r.position_level = "drugoe" /\ r.industry_segment = "drugoe"

\* C8 as stated: industry_segment comes from a fixed set whose default is
\* "other", position_level from {worker, specialist, engineer, leadership,
\* executive, other} or "unknown".
C8_FixedSetsDefaultOther ==
    \A row \in CleanedRows :
       /\ row.industry_segment \in (valid_segments \ {"other_industry"}) \cup {"other"}
       /\ row.position_level \in valid_levels

\* C8 amended: every row clean_vacancies_dataframe returns carries
\* industry_segment from {machinery, metallurgy, chemical, energy, oil_gas,
\* construction, other_industry}, the default being "other_industry" (a title
\* no segment keyword matches), and position_level from {worker, specialist,
\* engineer, leadership, executive, other}; the title is a string by then, so
\* "unknown" and the segment "other" of the non-string branches never appear.
C8_FixedSetsDefaultOtherIndustry ==
    \A row \in CleanedRows :
       /\ row.industry_segment \in valid_segments
       /\ row.position_level \in valid_levels \ {"unknown"}
       /\ SegmentMatches[row.name] = {} => row.industry_segment = "other_industry"
       /\ LevelMatches[row.name] = {} => row.position_level = "other"

\* C8 witness: a frame with an empty, a numeric or a missing title next to a
\* matching one was cleaned; the unmatched row carries the defaults
C8_Witness ==
    /\ mpc = "cleaned_all"
    /\ Len(cleaned_df.rows) = 2
    /\ \E i \in 1..Len(df_in) : df_in[i].name.kind \in {"number", "null", "absent"}
    /\ \E row \in CleanedRows :
          row.industry_segment = "other_industry" /\ row.position_level = "other"
    /\ \E row \in CleanedRows :
          row.industry_segment = "energy" /\ row.position_level = "engineer"

\* C9: each classified record carries the first category, in the table's
\* declared order, one of whose keywords is a substring of the lower-cased title
\* (or of the employer name, for the segments of db_manager.py), and the default
\* when no keyword matches.
C9_FirstMatchingCategory ==
    /\ \A row \in CleanedRows :
          /\ row.position_level = Earliest(level_keywords, LevelMatches[row.name], "other")
          /\ row.industry_segment =
                Earliest(segment_keywords, SegmentMatches[row.name], "other_industry")
    /\ \A r \in BagToSet(tbl_vacancies) :
          /\ r.position_level =
                Earliest(levels_keywords, DbLevelMatches[lower(r.name)], "drugoe")
          /\ r.industry_segment =
                Earliest(segments_keywords,
                         DbSegmentMatches[lower(r.name)]
                            \cup DbSegmentMatches[lower(r.employer_name)], "drugoe")

\* C9 witness: a title that matches a leadership keyword and an executive
\* keyword was classified as leadership
C9_Witness ==
    \E row \in CleanedRows :
       /\ row.name = lower(T_GenDirektor)
       /\ Cardinality(LevelMatches[row.name]) = 2
       /\ row.position_level = "leadership"

(***************************************************************************)
(* Estimators: operations.                                                 *)
(***************************************************************************)
InitEstimators == IdleMerger /\ InitDbState /\ IdleStats /\ IdleTools

\* the Series an estimator is called with; the estimators are functions of
\* their arguments, so each behaviour is one call
Samples ==
    { Series(a, b, nan, nonpos) :
        a \in 0..MaxSample, b \in 0..MaxSample, nan \in 0..1, nonpos \in 0..1 }

CalculateConfidenceInterval ==
    /\ spc = "idle"
    /\ \E data \in {d \in Samples : d.a + d.b <= MaxSample} :
        /\ sample' = data
        /\ ci' = calculate_confidence_interval(data)
        /\ spc' = "ci"
        /\ UNCHANGED <<mergerVars, dbVars, toolVars, prop_in, prop, boot_in, boot, summary>>

CalculateProportionConfidenceInterval ==
    /\ spc = "idle"
    /\ \E count \in 0..(MaxTotal + 1), total \in 0..MaxTotal :
        /\ prop_in' = [count |-> count, total |-> total]
        /\ prop' = calculate_proportion_confidence_interval(count, total)
        /\ spc' = "proportion"
        /\ UNCHANGED <<mergerVars, dbVars, toolVars, sample, ci, boot_in, boot, summary>>

NextInterval == CalculateConfidenceInterval \/ CalculateProportionConfidenceInterval

SpecInterval == InitEstimators /\ [][NextInterval]_vars

(***************************************************************************)
(* C11.  calculate_confidence_interval returns ci_lower <= mean <=         *)
(* ci_upper for every sample, the single usable value, identical values    *)
(* and the empty sample included.  A sample with one usable value has no   *)
(* standard deviation with ddof=1: both bounds are NaN and the comparison  *)
(* is false.                                                               *)
(***************************************************************************)
C11_MeanWithinInterval ==
    spc = "ci" => Leq(ci.ci_lower, ci.mean) /\ Leq(ci.mean, ci.ci_upper)

(***************************************************************************)
(* C12.  A sample of fewer than 30 positive values.  As stated: the        *)
(* interval is symmetric around the mean with margin_of_error > 0, and     *)
(* for [100,100,100] the mean is 100.                                      *)
(***************************************************************************)
PositiveOnly(data) == data.nan = 0 /\ data.nonpos = 0

Symmetric(r) ==
    /\ Minus(r.mean, r.ci_lower) = r.margin_of_error
    /\ Minus(r.ci_upper, r.mean) = r.margin_of_error

C13_ZeroTotalAllZero ==
    (spc = "proportion" /\ prop_in.total = 0)
        => /\ prop.raised = ""
           /\ prop.value.n = 0
           /\ \A f \in {"proportion", "percentage", "ci_lower", "ci_upper", "margin_of_error"} :
                prop.value[f] = Num(0)

C13_Witness ==
    /\ spc = "proportion"
    /\ prop_in = [count |-> 0, total |-> 0]
    /\ prop.raised = ""
    /\ prop.value.proportion = Num(0)

(***************************************************************************)
(* C15.  As stated: the Student t critical value with n-1 degrees of       *)
(* freedom is used exactly when n < 30 and the normal one exactly when     *)
(* n >= 30, n being the size of the sample passed in.                      *)
(***************************************************************************)
UsesCritical(r, n) ==
    r.margin_of_error =
        Times(IF n < SmallSample THEN t_ppf(n - 1) ELSE z_critical, r.sem)

C15_CriticalBySizePassedIn ==
    (spc = "ci" /\ ci.n > 0) => UsesCritical(ci, SizeOf(sample))

(***************************************************************************)
(* C15, amended.  n is the number of usable values, those left after NaN   *)
(* and values <= 0 are dropped: t with n-1 degrees of freedom exactly      *)
(* when n < 30 (n = 29 is t), normal exactly when n >= 30 (n = 30 is       *)
(* normal).  A sample of 30 values one of which is NaN or not positive     *)
(* takes the t branch with 28 degrees of freedom.                          *)
(***************************************************************************)
C15_CriticalByUsableSize ==
    (spc = "ci" /\ ci.n > 0)
        => /\ ci.n = sample.a + sample.b
           /\ UsesCritical(ci, ci.n)

C15_Witness ==
    /\ spc = "ci"
    /\ SizeOf(sample) = SmallSample
    /\ ci.n = SmallSample - 1
    /\ ci.margin_of_error = Times(t_ppf(SmallSample - 2), ci.sem)
    /\ ci.margin_of_error # Times(z_critical, ci.sem)

(***************************************************************************)
(* Estimators on small samples, the bootstrap and the summary included.    *)
(***************************************************************************)
ResampledSamples == {d \in Samples : d.a <= MaxResample /\ d.b <= MaxResample}

\* n_bootstrap is a count of resamples: at least one
BootstrapCounts == {1, 2, n_bootstrap_default}

SmallConfidenceInterval ==
    /\ spc = "idle"
    /\ \E data \in ResampledSamples :
        /\ sample' = data
        /\ ci' = calculate_confidence_interval(data)
        /\ spc' = "ci"
        /\ UNCHANGED <<mergerVars, dbVars, toolVars, prop_in, prop, boot_in, boot, summary>>

BootstrapConfidenceInterval ==
    /\ spc = "idle"
    /\ \E data \in ResampledSamples, n_bootstrap \in BootstrapCounts, statistic \in Statistics :
        \E draws \in BootstrapOutcomes(CleanData(data), n_bootstrap, statistic) :
            /\ sample' = data
            /\ boot_in' = [n_bootstrap |-> n_bootstrap, statistic |-> statistic]
            /\ boot' = bootstrap_confidence_interval(data, n_bootstrap, statistic, draws)
            /\ spc' = "bootstrap"
            /\ UNCHANGED <<mergerVars, dbVars, toolVars, ci, prop_in, prop, summary>>

CalculateStatisticalSummary ==
    /\ spc = "idle"
    /\ \E data \in ResampledSamples :
        \E draws \in BootstrapOutcomes(CleanData(data), n_bootstrap_summary, "mean") :
            /\ sample' = data
            /\ summary' = calculate_statistical_summary(data, draws)
            /\ spc' = "summary"
            /\ UNCHANGED <<mergerVars, dbVars, toolVars, ci, prop_in, prop, boot_in, boot>>

NextSummary ==
    \/ SmallConfidenceInterval
    \/ BootstrapConfidenceInterval
    \/ CalculateStatisticalSummary

SpecSummary == InitEstimators /\ [][NextSummary]_vars

(***************************************************************************)
(* C14.  Given a zero-size sample (empty, or all NaN or non-positive)      *)
(* every estimator returns, without raising, a zero-filled result with the *)
(* keys of its normal result: calculate_confidence_interval,               *)
(* bootstrap_confidence_interval for any statistic, and                    *)
(* calculate_statistical_summary, whose nested confidence_interval and     *)
(* bootstrap_confidence_interval entries are zero-filled in the same way.  *)
(* The summary returns two empty dicts for the nested entries.             *)
(***************************************************************************)
ZeroSize(data) == data.a + data.b = 0

\* the keys of the results of non-empty samples
CiKeys == DOMAIN calculate_confidence_interval(Series(1, 1, 0, 0))

BootstrapKeys ==
    DOMAIN bootstrap_confidence_interval(Series(1, 1, 0, 0), 1, "mean", <<0, 0, 0, 0>>).value

SummaryKeys == DOMAIN calculate_statistical_summary(Series(1, 1, 0, 0), <<0, 0, 0, 0>>).value

\* every computed entry is zero; the arguments echoed in the result stay
ZeroFilled(result, keys) ==
    /\ DOMAIN result = keys
    /\ \A k \in keys \ {"n", "n_bootstrap", "confidence_level",
                        "confidence_interval", "bootstrap_confidence_interval"} :
          result[k] = Num(0)
    /\ "n" \in keys => result.n = 0

C14_ZeroSizeZeroFilledSameKeys ==
    ZeroSize(sample)
        => /\ spc = "ci" => ZeroFilled(ci, CiKeys)
           /\ spc = "bootstrap" => boot.raised = "" /\ ZeroFilled(boot.value, BootstrapKeys)
           /\ spc = "summary" =>
                /\ summary.raised = ""
                /\ ZeroFilled(summary.value, SummaryKeys)
                /\ ZeroFilled(summary.value.confidence_interval, CiKeys)
                /\ ZeroFilled(summary.value.bootstrap_confidence_interval, BootstrapKeys)

(***************************************************************************)
(* C16.  bootstrap_confidence_interval with statistic 'mean' draws         *)
(* n_bootstrap resamples (1000 by default, always 1000 from                *)
(* calculate_statistical_summary), each of the sample's size, and returns  *)
(* the alpha/2 and 1-alpha/2 percentiles of their means: for every         *)
(* non-empty sample and every outcome of the draws ci_lower <= ci_upper    *)
(* and both lie within [min(sample), max(sample)].                         *)
(***************************************************************************)
WithinSample(r, data) ==
    /\ Leq(r.ci_lower, r.ci_upper)
    /\ Leq(MinOf(CleanData(data)), r.ci_lower)
    /\ Leq(r.ci_upper, MaxOf(CleanData(data)))

C16_BootstrapBoundsWithinSample ==
    ~ZeroSize(sample)
        => /\ (spc = "bootstrap" /\ boot_in.statistic = "mean") =>
                /\ boot.raised = ""
                /\ boot.resamples = boot_in.n_bootstrap
                /\ boot.size = sample.a + sample.b
                /\ WithinSample(boot.value, sample)
           /\ spc = "summary" =>
                /\ n_bootstrap_summary = n_bootstrap_default
                /\ summary.value.bootstrap_confidence_interval.n_bootstrap = n_bootstrap_summary
                /\ WithinSample(summary.value.bootstrap_confidence_interval, sample)

C16_Witness ==
    /\ spc = "bootstrap"
    /\ boot_in = [n_bootstrap |-> n_bootstrap_default, statistic |-> "mean"]
    /\ sample = Series(2, 1, 1, 0)
    /\ boot.resamples = n_bootstrap_default
    /\ Less(MinOf(sample), boot.value.ci_lower)
    /\ Less(boot.value.ci_lower, boot.value.ci_upper)
    /\ Less(boot.value.ci_upper, MaxOf(sample))

(***************************************************************************)
(* One call of the loader observed: its argument and the table it found.   *)
(***************************************************************************)
BatchVacancies == DbVacancies \cup NullFieldVacancies

\* an earlier load_industrial_data_from_json
LoadBefore ==
    /\ ~observed.called
    /\ loads = 0
    /\ \E batch \in SeqsUpTo(BatchVacancies, MaxBatch) : InsertVacanciesBatchCall(batch)

Observe(op, batch) ==
    /\ ~observed.called
    /\ InsertVacanciesBatchEffect(batch)
    /\ observed' = [called |-> TRUE, op |-> op, batch |-> batch, before |-> tbl_vacancies]

LoadObserved ==
    \E batch \in SeqsUpTo(BatchVacancies, MaxBatch) :
        Observe("load_industrial_data_from_json", batch)

InsertVacancyObserved ==
    \E vacancy \in BatchVacancies : Observe("insert_vacancy", <<vacancy>>)

NextBatch ==
    \/ LoadBefore
    \/ LoadObserved
    \/ InsertVacancyObserved

SpecBatch == InitDb /\ [][NextBatch]_vars

(***************************************************************************)
(* C17.  In insert_vacancies_batch an exception raised while preparing or  *)
(* classifying one record, whatever the record (wrong field types, a       *)
(* non-dict element) and wherever it stands, never aborts the batch: the   *)
(* record is skipped and every other valid record of the batch is          *)
(* inserted and committed.  A non-dict element met while inserted_count    *)
(* is a multiple of 1000 makes the handler itself raise: the batch is      *)
(* rolled back.                                                            *)
(***************************************************************************)
\* a record the loop inserts when it reaches it
ValidRecord(v) ==
    /\ v.kind = "dict"
    /\ Truthy(v.id)
    /\ ~GenerateIdRaises(v)
    /\ IsIndustrial[v]
    /\ ~PrepareRaises(v)

Stored(v, table) ==
    \E r \in Rows(table) : r.hh_id = v.id \/ r.id = _generate_vacancy_id(v)

C17_BadRecordNeverAbortsBatch ==
    observed.called
        => \A i \in 1..Len(observed.batch) :
              ValidRecord(observed.batch[i]) => Stored(observed.batch[i], tbl_vacancies)

(***************************************************************************)
(* C18.  A vacancy with a non-empty identifier and title whose other       *)
(* fields (salary, area, employer, snippet, key_skills, dates, ...) are    *)
(* missing or null is stored with safe defaults in the corresponding       *)
(* columns (empty string / zero / NULL, has_salary = 0), not rejected.     *)
(* A field that is null, not missing, raises in _prepare_vacancy_data and  *)
(* the record is dropped.                                                  *)
(***************************************************************************)
MissingOrNull(member) == member.kind \in {"absent", "null"}

SparseRecord(v) ==
    /\ v.kind = "dict"
    /\ Truthy(v.id) /\ IsStr(v.id)
    /\ v.name # <<>>
    /\ MissingOrNull(v.area) /\ MissingOrNull(v.salary)
    /\ MissingOrNull(v.employer) /\ MissingOrNull(v.snippet)
    /\ v.key_skills = <<>>
    /\ v.published_at = ""

DefaultColumns(r) ==
    /\ r.area = ""
    /\ r.salary_from = <<>> /\ r.salary_to = <<>> /\ r.salary_currency = ""
    /\ r.salary_avg_rub = <<>> /\ r.has_salary = 0
    /\ r.employer_name = <<>>
    /\ r.key_skills_json = <<>>
    /\ r.published_at = <<>>

C18_SparseRecordStoredWithDefaults ==
    \A v \in BatchVacancies :
        (/\ observed.called
         /\ observed.batch = <<v>>
         /\ observed.before = EmptyBag
         /\ SparseRecord(v)
         /\ IsIndustrial[v])
            => \E r \in Rows(tbl_vacancies) : r.hh_id = v.id /\ DefaultColumns(r)

(***************************************************************************)
(* C20.  The value insert_vacancies_batch returns (and                     *)
(* load_industrial_data_from_json reports) is the number of rows the call  *)
(* added to table vacancies: records stored by an earlier call contribute  *)
(* 0, and insert_vacancy returns True only when the row was added.         *)
(* inserted_count is incremented after every INSERT OR IGNORE, ignored or  *)
(* not.                                                                    *)
(***************************************************************************)
RowsAdded == BagCardinality(tbl_vacancies) - BagCardinality(observed.before)

C20_ReturnCountsRowsAdded ==
    observed.called
        => /\ last_return = RowsAdded
           /\ (observed.op = "insert_vacancy" /\ last_return > 0) => RowsAdded = 1

(***************************************************************************)
(* C19.  As stated: after load_and_merge_files followed by                 *)
(* remove_duplicates on its result, total_vacancies_before is the number   *)
(* of loaded records, total_vacancies_after the number of returned         *)
(* records, duplicates_removed the number of input records whose           *)
(* identifier repeats that of an earlier record, and                       *)
(* total_vacancies_before = total_vacancies_after + duplicates_removed.    *)
(***************************************************************************)
\* the records whose identifier, absent or not, is that of an earlier record
RepeatsEarlier(s) == {i \in 1..Len(s) : \E j \in 1..(i - 1) : s[j].id = s[i].id}

\* the records whose identifier is present and is that of an earlier record
RepeatedIds(s) == {i \in RepeatsEarlier(s) : Truthy(s[i].id)}

SkillRowsOf(r) ==
    { [vacancy_id |-> r.id, skill_name |-> r.key_skills_json[i], frequency_rank |-> i] :
        i \in {j \in 1..Len(r.key_skills_json) : r.key_skills_json[j] # ""} }

C21_OneSkillRowPerNamedSkill ==
    /\ \A r \in Rows(tbl_vacancies) :
          \A k \in SkillRowsOf(r) : CopiesIn(k, tbl_skills) = 1
    /\ \A k \in BagToSet(tbl_skills) :
          \E r \in Rows(tbl_vacancies) : k \in SkillRowsOf(r)

(***************************************************************************)
(* C22.  For total > 0 and 0 <= count <= total                             *)
(* calculate_proportion_confidence_interval returns n = total,             *)
(* percentage = 100 * count / total and                                    *)
(* 0 <= ci_lower <= percentage <= ci_upper <= 100: the bounds are clipped  *)
(* to the valid range.                                                     *)
(***************************************************************************)
C22_ProportionBoundsClipped ==
    (spc = "proportion" /\ prop_in.total > 0 /\ prop_in.count <= prop_in.total)
        => /\ prop.raised = ""
           /\ prop.value.n = prop_in.total
           \* percentage is 100 * count / total, to the rounding of the thousandths
           /\ prop.value.percentage.v * prop_in.total <= 100000 * prop_in.count
           /\ 100000 * prop_in.count < (prop.value.percentage.v + 100) * prop_in.total
           /\ Leq(Num(0), prop.value.ci_lower)
           /\ Leq(prop.value.ci_lower, prop.value.percentage)
           /\ Leq(prop.value.percentage, prop.value.ci_upper)
           /\ Leq(prop.value.ci_upper, Num(100000))

C22_Witness ==
    /\ spc = "proportion"
    /\ prop_in = [count |-> 1, total |-> 3]
    /\ prop.value.ci_lower = Num(0)
    /\ Less(Num(0), prop.value.percentage)
    /\ Less(prop.value.percentage, prop.value.ci_upper)
    /\ Less(prop.value.ci_upper, Num(100000))

(***************************************************************************)
(* filtr.py: the two industrial filters.                                   *)
(*   Latin letters of the keyword lists are tokens of their own ("lat_i"), *)
(*   distinct from the transliterated Cyrillic ones.                       *)
(***************************************************************************)
MaxFiltered == 2        \* vacancies in the file a filter reads

\* filtr.py filter_industrial_vacancies: exclude_keywords
exclude_keywords ==
  <<
    <<"lat_d","lat_e","lat_v","lat_o","lat_p","lat_s">>,  \* devops
    <<"r","a","z","r","a","b","o","t","ch","i","k">>,  \* razrabotchik
    <<"p","r","o","g","r","a","m","m","i","s","t">>,  \* programmist
    <<"lat_d","lat_e","lat_v","lat_e","lat_l","lat_o","lat_p","lat_e","lat_r">>,  \* developer
    <<"lat_e","lat_n","lat_g","lat_i","lat_n","lat_e","lat_e","lat_r">>,  \* engineer
    <<"lat_d","lat_a","lat_t","lat_a"," ","lat_s","lat_c","lat_i","lat_e","lat_n","lat_t","lat_i","lat_s","lat_t">>,  \* data scientist
    <<"a","n","a","l","i","t","i","k">>,  \* analitik
    <<"lat_a","lat_n","lat_a","lat_l","lat_y","lat_s","lat_t">>,  \* analyst
    <<"d","i","z","a","j","n","e","r">>,  \* dizajner
    <<"lat_d","lat_e","lat_s","lat_i","lat_g","lat_n","lat_e","lat_r">>,  \* designer
    <<"m","a","r","k","e","t","o","l","o","g">>,  \* marketolog
    <<"m","e","n","e","d","zh","e","r"," ","p","o"," ","p","r","o","d","a","zh","a","m">>,  \* menedzher po prodazham
    <<"m","e","n","e","d","zh","e","r"," ","p","r","o","e","k","t","o","v">>,  \* menedzher proektov
    <<"r","e","k","r","u","t","e","r">>,  \* rekruter
    <<"lat_h","lat_r">>,  \* hr
    <<"k","a","d","r","y">>,  \* kadry
    <<"b","u","h","g","a","l","t","e","r">>,  \* buhgalter
    <<"eh","k","o","n","o","m","i","s","t">>,  \* ehkonomist
    <<"f","i","n","a","n","s","i","s","t">>,  \* finansist
    <<"yu","r","i","s","t">>,  \* yurist
    <<"a","d","v","o","k","a","t">>,  \* advokat
    <<"yu","r","i","s","k","o","n","s","u","l","q","t">>,  \* yuriskonsulqt
    <<"k","o","n","s","u","l","q","t","a","n","t">>,  \* konsulqtant
    <<"a","d","m","i","n","i","s","t","r","a","t","o","r">>,  \* administrator
    <<"s","e","k","r","e","t","a","r","q">>,  \* sekretarq
    <<"o","f","i","s","-","m","e","n","e","d","zh","e","r">>,  \* ofis-menedzher
    <<"k","o","p","i","r","a","j","t","e","r">>,  \* kopirajter
    <<"k","o","n","t","e","n","t","-","m","e","n","e","d","zh","e","r">>,  \* kontent-menedzher
    <<"lat_s","lat_m","lat_m">>,  \* smm
    <<"t","a","r","g","e","t","o","l","o","g">>,  \* targetolog
    <<"o","p","e","r","a","t","o","r"," ","k","o","l","-","c","e","n","t","r","a">>,  \* operator kol-centra
    <<"o","p","e","r","a","t","o","r"," ","k","o","l","l","-","c","e","n","t","r","a">>,  \* operator koll-centra
    <<"o","p","e","r","a","t","o","r"," ","lat_c","lat_a","lat_l","lat_l","-","c","e","n","t","r","a">>,  \* operator call-centra
    <<"o","p","e","r","a","t","o","r"," ","k","o","n","t","a","k","t","-","c","e","n","t","r","a">>,  \* operator kontakt-centra
    <<"s","p","e","c","i","a","l","i","s","t"," ","k","o","l","-","c","e","n","t","r","a">>,  \* specialist kol-centra
    <<"s","p","e","c","i","a","l","i","s","t"," ","k","o","l","l","-","c","e","n","t","r","a">>,  \* specialist koll-centra
    <<"s","p","e","c","i","a","l","i","s","t"," ","lat_c","lat_a","lat_l","lat_l","-","c","e","n","t","r","a">>,  \* specialist call-centra
    <<"m","e","n","e","d","zh","e","r"," ","k","o","l","-","c","e","n","t","r","a">>,  \* menedzher kol-centra
    <<"m","e","n","e","d","zh","e","r"," ","k","o","l","l","-","c","e","n","t","r","a">>,  \* menedzher koll-centra
    <<"m","e","n","e","d","zh","e","r"," ","lat_c","lat_a","lat_l","lat_l","-","c","e","n","t","r","a">>,  \* menedzher call-centra
    <<"a","g","e","n","t"," ","k","o","l","-","c","e","n","t","r","a">>,  \* agent kol-centra
    <<"a","g","e","n","t"," ","k","o","l","l","-","c","e","n","t","r","a">>,  \* agent koll-centra
    <<"a","g","e","n","t"," ","lat_c","lat_a","lat_l","lat_l","-","c","e","n","t","r","a">>,  \* agent call-centra
    <<"k","o","l","-","c","e","n","t","r">>,  \* kol-centr
    <<"k","o","l","l","-","c","e","n","t","r">>,  \* koll-centr
    <<"lat_c","lat_a","lat_l","lat_l","-","c","e","n","t","r">>,  \* call-centr
    <<"k","o","n","t","a","k","t","-","c","e","n","t","r">>,  \* kontakt-centr
    <<"t","e","l","e","f","o","n","n","y","j"," ","o","p","e","r","a","t","o","r">>,  \* telefonnyj operator
    <<"o","p","e","r","a","t","o","r"," ","g","o","r","ya","ch","e","j"," ","l","i","n","i","i">>,  \* operator goryachej linii
    <<"o","p","e","r","a","t","o","r"," ","p","k">>,  \* operator pk
    <<"o","p","e","r","a","t","o","r"," ","1","s">>,  \* operator 1s
    <<"o","p","e","r","a","t","o","r"," ","b","a","z","y"," ","d","a","n","n","y","h">>,  \* operator bazy dannyh
    <<"v","r","a","ch">>,  \* vrach
    <<"m","e","d","i","c","i","n","s","k">>,  \* medicinsk
    <<"f","e","l","q","d","sh","e","r">>,  \* felqdsher
    <<"m","e","d","s","e","s","t","r","a">>,  \* medsestra
    <<"m","e","d","b","r","a","t">>,  \* medbrat
    <<"s","t","o","m","a","t","o","l","o","g">>,  \* stomatolog
    <<"h","i","r","u","r","g">>,  \* hirurg
    <<"t","e","r","a","p","e","v","t">>,  \* terapevt
    <<"p","e","d","i","a","t","r">>,  \* pediatr
    <<"f","a","r","m","a","c","e","v","t">>,  \* farmacevt
    <<"p","r","o","v","i","z","o","r">>,  \* provizor
    <<"l","a","b","o","r","a","n","t">>,  \* laborant
    <<"r","e","n","t","g","e","n">>,  \* rentgen
    <<"u","z","i">>,  \* uzi
    <<"p","r","e","p","o","d","a","v","a","t","e","l","q">>,  \* prepodavatelq
    <<"u","ch","i","t","e","l","q">>,  \* uchitelq
    <<"t","r","e","n","e","r">>,  \* trener
    <<"p","e","d","a","g","o","g">>,  \* pedagog
    <<"r","e","p","e","t","i","t","o","r">>,  \* repetitor
    <<"m","e","t","o","d","i","s","t">>,  \* metodist
    <<"v","o","s","p","i","t","a","t","e","l","q">>,  \* vospitatelq
    <<"p","r","o","d","a","v","e","c">>,  \* prodavec
    <<"k","a","s","s","i","r">>,  \* kassir
    <<"m","e","r","ch","a","n","d","a","j","z","e","r">>,  \* merchandajzer
    <<"k","o","n","s","u","l","q","t","a","n","t">>,  \* konsulqtant
    <<"b","a","r","i","s","t","a">>,  \* barista
    <<"o","f","i","c","i","a","n","t">>,  \* oficiant
    <<"p","o","v","a","r">>,  \* povar
    <<"b","a","r","m","e","n">>,  \* barmen
    <<"s","u","sh","i","s","t">>,  \* sushist
    <<"p","a","r","i","k","m","a","h","e","r">>,  \* parikmaher
    <<"v","i","z","a","zh","i","s","t">>,  \* vizazhist
    <<"k","o","s","m","e","t","o","l","o","g">>,  \* kosmetolog
    <<"m","a","s","s","a","zh","i","s","t">>,  \* massazhist
    <<"v","o","d","i","t","e","l","q">>,  \* voditelq
    <<"k","u","r","q","e","r">>,  \* kurqer
    <<"l","o","g","i","s","t">>,  \* logist
    <<"eh","k","s","p","e","d","i","t","o","r">>,  \* ehkspeditor
    <<"a","g","e","n","t">>,  \* agent
    <<"r","i","e","l","t","o","r">>,  \* rieltor
    <<"b","r","o","k","e","r">>,  \* broker
    <<"s","t","r","a","h","o","v","o","j">>,  \* strahovoj
    <<"zh","u","r","n","a","l","i","s","t">>,  \* zhurnalist
    <<"r","e","d","a","k","t","o","r">>,  \* redaktor
    <<"k","o","r","r","e","s","p","o","n","d","e","n","t">>,  \* korrespondent
    <<"p","s","i","h","o","l","o","g">>,  \* psiholog
    <<"s","o","c","i","a","l","q","n","y","j"," ","r","a","b","o","t","n","i","k">>  \* socialqnyj rabotnik
  >>

\* filtr.py filter_industrial_vacancies: production_operator_keywords
production_operator_keywords ==
  <<
    <<"o","p","e","r","a","t","o","r"," ","l","i","n","i","i">>,  \* operator linii
    <<"o","p","e","r","a","t","o","r"," ","p","r","o","i","z","v","o","d","s","t","v">>,  \* operator proizvodstv
    <<"o","p","e","r","a","t","o","r"," ","s","t","a","n","k">>,  \* operator stank
    <<"o","p","e","r","a","t","o","r"," ","ch","p","u">>,  \* operator chpu
    <<"o","p","e","r","a","t","o","r"," ","o","b","o","r","u","d","o","v","a","n">>,  \* operator oborudovan
    <<"o","p","e","r","a","t","o","r"," ","u","s","t","a","n","o","v","k">>,  \* operator ustanovk
    <<"o","p","e","r","a","t","o","r"," ","a","p","p","a","r","a","t">>,  \* operator apparat
    <<"o","p","e","r","a","t","o","r"," ","m","a","sh","i","n","y">>,  \* operator mashiny
    <<"o","p","e","r","a","t","o","r"," ","a","g","r","e","g","a","t">>,  \* operator agregat
    <<"o","p","e","r","a","t","o","r"," ","t","e","h","n","o","l","o","g","i","ch">>,  \* operator tehnologich
    <<"o","p","e","r","a","t","o","r"," ","c","e","h">>,  \* operator ceh
    <<"o","p","e","r","a","t","o","r"," ","z","a","v","o","d">>,  \* operator zavod
    <<"o","p","e","r","a","t","o","r"," ","f","a","b","r","i","k">>,  \* operator fabrik
    <<"m","a","sh","i","n","i","s","t">>,  \* mashinist
    <<"a","p","p","a","r","a","t","ch","i","k">>  \* apparatchik
  >>

\* filtr.py smart_industrial_filter: industrial_keywords
industrial_keywords ==
  <<
    <<"i","n","zh","e","n","e","r">>,  \* inzhener
    <<"t","e","h","n","i","k">>,  \* tehnik
    <<"m","e","h","a","n","i","k">>,  \* mehanik
    <<"eh","l","e","k","t","r","i","k">>,  \* ehlektrik
    <<"s","v","a","r","sch","i","k">>,  \* svarschik
    <<"t","o","k","a","r","q">>,  \* tokarq
    <<"f","r","e","z","e","r","o","v","sch","i","k">>,  \* frezerovschik
    <<"s","l","e","s","a","r","q">>,  \* slesarq
    <<"m","o","n","t","a","zh","n","i","k">>,  \* montazhnik
    <<"n","a","l","a","d","ch","i","k">>,  \* naladchik
    <<"m","a","sh","i","n","i","s","t">>,  \* mashinist
    <<"t","e","h","n","o","l","o","g">>,  \* tehnolog
    <<"k","o","n","s","t","r","u","k","t","o","r">>,  \* konstruktor
    <<"p","r","o","e","k","t","i","r","o","v","sch","i","k">>,  \* proektirovschik
    <<"o","b","o","r","u","d","o","v","a","n">>,  \* oborudovan
    <<"p","r","o","i","z","v","o","d","s","t","v">>,  \* proizvodstv
    <<"c","e","h">>,  \* ceh
    <<"z","a","v","o","d">>,  \* zavod
    <<"f","a","b","r","i","k","a">>,  \* fabrika
    <<"s","t","r","o","i","t","e","l","q">>,  \* stroitelq
    <<"m","o","n","t","a","zh">>,  \* montazh
    <<"r","e","m","o","n","t">>,  \* remont
    <<"o","b","s","l","u","zh","i","v","a","n">>,  \* obsluzhivan
    <<"eh","k","s","p","l","u","a","t","a","c">>,  \* ehkspluatac
    <<"eh","n","e","r","g","e","t","i","k">>,  \* ehnergetik
    <<"n","e","f","t","q">>,  \* neftq
    <<"g","a","z">>,  \* gaz
    <<"h","i","m","i">>,  \* himi
    <<"m","e","t","a","l","l">>,  \* metall
    <<"g","o","r","n">>,  \* gorn
    <<"b","u","r","i","l","q","sch","i","k">>,  \* burilqschik
    <<"g","e","o","l","o","g">>,  \* geolog
    <<"o","b","o","g","a","t","i","t","e","l","q">>,  \* obogatitelq
    <<"o","b","o","g","a","sch","e","n">>  \* obogaschen
  >>

\* filtr.py smart_industrial_filter: production_operators
production_operators ==
  <<
    <<"o","p","e","r","a","t","o","r"," ","l","i","n","i","i">>,  \* operator linii
    <<"o","p","e","r","a","t","o","r"," ","p","r","o","i","z","v","o","d","s","t","v">>,  \* operator proizvodstv
    <<"o","p","e","r","a","t","o","r"," ","s","t","a","n","k">>,  \* operator stank
    <<"o","p","e","r","a","t","o","r"," ","ch","p","u">>,  \* operator chpu
    <<"o","p","e","r","a","t","o","r"," ","o","b","o","r","u","d","o","v","a","n">>,  \* operator oborudovan
    <<"o","p","e","r","a","t","o","r"," ","u","s","t","a","n","o","v","k">>,  \* operator ustanovk
    <<"o","p","e","r","a","t","o","r"," ","a","p","p","a","r","a","t">>,  \* operator apparat
    <<"o","p","e","r","a","t","o","r"," ","m","a","sh","i","n","y">>,  \* operator mashiny
    <<"o","p","e","r","a","t","o","r"," ","a","g","r","e","g","a","t">>,  \* operator agregat
    <<"o","p","e","r","a","t","o","r"," ","t","e","h","n","o","l","o","g","i","ch">>,  \* operator tehnologich
    <<"o","p","e","r","a","t","o","r"," ","c","e","h">>,  \* operator ceh
    <<"o","p","e","r","a","t","o","r"," ","z","a","v","o","d">>,  \* operator zavod
    <<"o","p","e","r","a","t","o","r"," ","f","a","b","r","i","k">>,  \* operator fabrik
    <<"m","a","sh","i","n","i","s","t">>,  \* mashinist
    <<"a","p","p","a","r","a","t","ch","i","k">>  \* apparatchik
  >>

\* filtr.py smart_industrial_filter: office_operators
office_operators ==
  <<
    <<"o","p","e","r","a","t","o","r"," ","k","o","l","-","c","e","n","t","r","a">>,  \* operator kol-centra
    <<"o","p","e","r","a","t","o","r"," ","k","o","l","l","-","c","e","n","t","r","a">>,  \* operator koll-centra
    <<"o","p","e","r","a","t","o","r"," ","lat_c","lat_a","lat_l","lat_l","-","c","e","n","t","r","a">>,  \* operator call-centra
    <<"o","p","e","r","a","t","o","r"," ","k","o","n","t","a","k","t","-","c","e","n","t","r","a">>,  \* operator kontakt-centra
    <<"o","p","e","r","a","t","o","r"," ","p","k">>,  \* operator pk
    <<"o","p","e","r","a","t","o","r"," ","1","s">>,  \* operator 1s
    <<"o","p","e","r","a","t","o","r"," ","b","a","z","y"," ","d","a","n","n","y","h">>,  \* operator bazy dannyh
    <<"o","p","e","r","a","t","o","r"," ","g","o","r","ya","ch","e","j"," ","l","i","n","i","i">>,  \* operator goryachej linii
    <<"t","e","l","e","f","o","n","n","y","j"," ","o","p","e","r","a","t","o","r">>  \* telefonnyj operator
  >>

\* filtr.py smart_industrial_filter: other_exclude
other_exclude ==
  <<
    <<"lat_d","lat_e","lat_v","lat_o","lat_p","lat_s">>,  \* devops
    <<"r","a","z","r","a","b","o","t","ch","i","k">>,  \* razrabotchik
    <<"p","r","o","g","r","a","m","m","i","s","t">>,  \* programmist
    <<"lat_i","lat_t">>,  \* it
    <<"a","j","t","i">>,  \* ajti
    <<"b","u","h","g","a","l","t","e","r">>,  \* buhgalter
    <<"eh","k","o","n","o","m","i","s","t">>,  \* ehkonomist
    <<"f","i","n","a","n","s">>,  \* finans
    <<"yu","r","i","s","t">>,  \* yurist
    <<"a","d","v","o","k","a","t">>,  \* advokat
    <<"m","e","n","e","d","zh","e","r"," ","p","o"," ","p","r","o","d","a","zh","a","m">>,  \* menedzher po prodazham
    <<"m","a","r","k","e","t","o","l","o","g">>,  \* marketolog
    <<"r","e","k","r","u","t","e","r">>,  \* rekruter
    <<"lat_h","lat_r">>,  \* hr
    <<"v","r","a","ch">>,  \* vrach
    <<"m","e","d","i","c","i","n","s","k">>,  \* medicinsk
    <<"f","e","l","q","d","sh","e","r">>,  \* felqdsher
    <<"m","e","d","s","e","s","t","r","a">>,  \* medsestra
    <<"s","t","o","m","a","t","o","l","o","g">>,  \* stomatolog
    <<"p","r","e","p","o","d","a","v","a","t","e","l","q">>,  \* prepodavatelq
    <<"u","ch","i","t","e","l","q">>,  \* uchitelq
    <<"t","r","e","n","e","r">>,  \* trener
    <<"p","e","d","a","g","o","g">>,  \* pedagog
    <<"p","r","o","d","a","v","e","c">>,  \* prodavec
    <<"k","a","s","s","i","r">>,  \* kassir
    <<"k","o","n","s","u","l","q","t","a","n","t">>,  \* konsulqtant
    <<"m","e","r","ch","a","n","d","a","j","z","e","r">>,  \* merchandajzer
    <<"v","o","d","i","t","e","l","q">>,  \* voditelq
    <<"k","u","r","q","e","r">>,  \* kurqer
    <<"l","o","g","i","s","t">>,  \* logist
    <<"eh","k","s","p","e","d","i","t","o","r">>,  \* ehkspeditor
    <<"p","o","v","a","r">>,  \* povar
    <<"o","f","i","c","i","a","n","t">>,  \* oficiant
    <<"b","a","r","i","s","t","a">>,  \* barista
    <<"b","a","r","m","e","n">>  \* barmen
  >>

T_MashinistOperatorPK == <<"M","a","sh","i","n","i","s","t",","," ","o","p","e","r","a","t","o","r"," ","P","K">>
T_OperatorPK == <<"O","p","e","r","a","t","o","r"," ","P","K">>
T_OperatorPKZavoda == <<"O","p","e","r","a","t","o","r"," ","P","K"," ","z","a","v","o","d","a">>
T_InzhenerProgrammist == <<"I","n","zh","e","n","e","r","-","p","r","o","g","r","a","m","m","i","s","t">>
T_Uborschik == <<"U","b","o","r","sch","i","k">>

\* a vacancy as the filters read it: name absent or a string, and the names of
\* its professional_roles
FilterVacancy(kind, text, roles) ==
    [name |-> [kind |-> kind, text |-> text], professional_roles |-> roles]

FilterVacancies ==
    { FilterVacancy("str", T_MashinistOperatorPK, <<>>),
      FilterVacancy("str", T_OperatorPK, <<>>),
      FilterVacancy("str", T_OperatorPKZavoda, <<>>),
      FilterVacancy("str", T_Inzhener, <<>>),
      FilterVacancy("str", T_InzhenerProgrammist, <<>>),
      FilterVacancy("str", T_Buhgalter, <<T_Slesar>>),
      FilterVacancy("str", T_Uborschik, <<>>),
      FilterVacancy("str", T_Uborschik, <<T_Buhgalter, T_Slesar>>),
      FilterVacancy("absent", <<>>, <<>>) }

\* any(keyword in text for keyword in keywords)
AnyIn(keywords, text) == \E k \in 1..Len(keywords) : Contains(keywords[k], text)

\* vacancy.get('name', '').lower()
FilterName(vacancy) == IF vacancy.name.kind = "absent" THEN <<>> ELSE lower(vacancy.name.text)

\* ' '.join([role.get('name', '').lower() for role in professional_roles])
RECURSIVE JoinRoles(_)
JoinRoles(roles) ==
    IF roles = <<>> THEN <<>>
    ELSE IF Len(roles) = 1 THEN lower(roles[1])
    ELSE lower(roles[1]) \o <<" ">> \o JoinRoles(Tail(roles))

\* the flags both loops compute for a vacancy, evaluated once per vacancy
FilterFlags ==
    [v \in FilterVacancies |->
        LET name == FilterName(v)
            roles_text == JoinRoles(v.professional_roles)
        IN  [is_production_operator_1 |-> AnyIn(production_operator_keywords, name),
             should_exclude |-> AnyIn(exclude_keywords, name),
             is_production_operator |-> AnyIn(production_operators, name),
             is_office_operator |-> AnyIn(office_operators, name),
             is_industrial |-> \/ AnyIn(industrial_keywords, name)
                               \/ AnyIn(industrial_keywords, roles_text),
             is_excluded |-> AnyIn(other_exclude, name)]]

\* mutant: the exclude keywords are looked at first
RECURSIVE filter_industrial_vacancies_exclude_first(_)
filter_industrial_vacancies_exclude_first(vacancies) ==
    IF vacancies = <<>> THEN [industrial_vacancies |-> <<>>, removed_vacancies |-> <<>>]
    ELSE LET vacancy == Head(vacancies)
             rest == filter_industrial_vacancies_exclude_first(Tail(vacancies))
         IN  IF FilterFlags[vacancy].should_exclude
             THEN [rest EXCEPT !.removed_vacancies = <<vacancy>> \o @]
             ELSE [rest EXCEPT !.industrial_vacancies = <<vacancy>> \o @]

\* filter_industrial_vacancies: the loop over the loaded vacancies
RECURSIVE filter_industrial_vacancies(_)
filter_industrial_vacancies(vacancies) ==
    IF vacancies = <<>> THEN [industrial_vacancies |-> <<>>, removed_vacancies |-> <<>>]
    ELSE LET vacancy == Head(vacancies)
             rest == filter_industrial_vacancies(Tail(vacancies))
         IN  IF FilterFlags[vacancy].is_production_operator_1
             THEN [rest EXCEPT !.industrial_vacancies = <<vacancy>> \o @]
             ELSE IF ~FilterFlags[vacancy].should_exclude
             THEN [rest EXCEPT !.industrial_vacancies = <<vacancy>> \o @]
             ELSE [rest EXCEPT !.removed_vacancies = <<vacancy>> \o @]

\* smart_industrial_filter: the loop over the loaded vacancies
RECURSIVE smart_industrial_filter(_)
smart_industrial_filter(vacancies) ==
    IF vacancies = <<>> THEN <<>>
    ELSE LET vacancy == Head(vacancies)
             flags == FilterFlags[vacancy]
             rest == smart_industrial_filter(Tail(vacancies))
         IN  IF flags.is_production_operator THEN <<vacancy>> \o rest
             ELSE IF flags.is_office_operator THEN rest
             ELSE IF flags.is_industrial /\ ~flags.is_excluded THEN <<vacancy>> \o rest
             ELSE rest

InitFilter == IdleMerger /\ InitDbState /\ IdleStats /\ IdleTools

FilterIndustrialVacancies ==
    /\ fpc = "idle"
    /\ \E vacancies \in SeqsUpTo(FilterVacancies, MaxFiltered) :
          /\ flt_in' = vacancies
          /\ flt_kept' = filter_industrial_vacancies(vacancies).industrial_vacancies
          /\ flt_removed' = filter_industrial_vacancies(vacancies).removed_vacancies
    /\ fpc' = "filter"
    /\ UNCHANGED <<coreVars, industrialVars, validatorVars, reportVars,
                 collectorVars, requestVars>>

SmartIndustrialFilter ==
    /\ fpc = "idle"
    /\ \E vacancies \in SeqsUpTo(FilterVacancies, MaxFiltered) :
          /\ flt_in' = vacancies
          /\ flt_kept' = smart_industrial_filter(vacancies)
    /\ fpc' = "smart"
    /\ UNCHANGED <<coreVars, flt_removed, industrialVars, validatorVars, reportVars,
                 collectorVars, requestVars>>

NextFilter == FilterIndustrialVacancies \/ SmartIndustrialFilter

SpecFilter == InitFilter /\ [][NextFilter]_vars

(***************************************************************************)
(* C23.  In both filters a title holding a production-operator keyword is  *)
(* kept whatever exclude or office-operator keywords it also holds; in     *)
(* smart_industrial_filter the rules apply in the order production         *)
(* operator (keep), office operator (drop), industrial keyword in title    *)
(* or roles without an exclude keyword (keep), anything else (drop);       *)
(* filter_industrial_vacancies puts every input vacancy into exactly one   *)
(* of the kept and removed lists.                                          *)
(***************************************************************************)
Elements(seq) == {seq[i] : i \in 1..Len(seq)}

BagOfSeq(seq) == [x \in Elements(seq) |-> Cardinality({i \in 1..Len(seq) : seq[i] = x})]

ProductionTitle(v) ==
    AnyIn(production_operator_keywords, FilterName(v))

C23_ProductionOperatorKeptRulesInOrder ==
    /\ fpc = "filter" =>
         /\ \A v \in Elements(flt_in) : ProductionTitle(v) => v \in Elements(flt_kept)
         /\ BagOfSeq(flt_kept) (+) BagOfSeq(flt_removed) = BagOfSeq(flt_in)
         /\ Elements(flt_kept) \cap Elements(flt_removed) = {}
    /\ fpc = "smart" =>
         \A v \in Elements(flt_in) :
            LET name == FilterName(v)
                production == AnyIn(production_operators, name)
                office == AnyIn(office_operators, name)
                industrial == \/ AnyIn(industrial_keywords, name)
                              \/ AnyIn(industrial_keywords, JoinRoles(v.professional_roles))
                excluded == AnyIn(other_exclude, name)
            IN  /\ production => v \in Elements(flt_kept)
                /\ (~production /\ office) => v \notin Elements(flt_kept)
                /\ (~production /\ ~office) =>
                      (v \in Elements(flt_kept) <=> (industrial /\ ~excluded))
                /\ Cardinality({i \in 1..Len(flt_kept) : flt_kept[i] = v})
                      \in {0, Cardinality({i \in 1..Len(flt_in) : flt_in[i] = v})}

C23_Witness ==
    /\ fpc = "filter"
    /\ flt_kept = <<FilterVacancy("str", T_MashinistOperatorPK, <<>>)>>
    /\ flt_removed = <<FilterVacancy("str", T_OperatorPK, <<>>)>>
    /\ FilterFlags[flt_kept[1]].should_exclude

(***************************************************************************)
(* hh_api_client.py: UltraIndustrialClient._is_true_industrial_vacancy,    *)
(* and the copy in hh_archiv.py (SixMonthIndustrialClient), which has no   *)
(* industry check.                                                         *)
(***************************************************************************)
\* hh_api_client.py _get_non_industrial_keywords (a set: each keyword once)
non_industrial_keywords ==
  <<
    <<"m","e","n","e","d","zh","e","r">>,  \* menedzher
    <<"o","f","i","s","-","m","e","n","e","d","zh","e","r">>,  \* ofis-menedzher
    <<"s","e","k","r","e","t","a","r","q">>,  \* sekretarq
    <<"a","d","m","i","n","i","s","t","r","a","t","o","r">>,  \* administrator
    <<"k","o","o","r","d","i","n","a","t","o","r">>,  \* koordinator
    <<"a","s","s","i","s","t","e","n","t">>,  \* assistent
    <<"p","o","m","o","sch","n","i","k">>,  \* pomoschnik
    <<"r","e","f","e","r","e","n","t">>,  \* referent
    <<"d","e","l","o","p","r","o","i","z","v","o","d","i","t","e","l","q">>,  \* deloproizvoditelq
    <<"a","r","h","i","v","a","r","i","u","s">>,  \* arhivarius
    <<"p","r","o","d","a","v","e","c">>,  \* prodavec
    <<"k","a","s","s","i","r">>,  \* kassir
    <<"m","e","r","ch","e","n","d","a","j","z","e","r">>,  \* merchendajzer
    <<"t","o","r","g","o","v","y","j"," ","p","r","e","d","s","t","a","v","i","t","e","l","q">>,  \* torgovyj predstavitelq
    <<"s","u","p","e","r","v","a","j","z","e","r">>,  \* supervajzer
    <<"m","a","r","k","e","t","o","l","o","g">>,  \* marketolog
    <<"p","i","a","r">>,  \* piar
    <<"lat_p","lat_r","-">>,  \* pr-
    <<"lat_s","lat_m","lat_m">>,  \* smm
    <<"k","o","p","i","r","a","j","t","e","r">>,  \* kopirajter
    <<"k","o","n","t","e","n","t","-","m","e","n","e","d","zh","e","r">>,  \* kontent-menedzher
    <<"p","r","o","g","r","a","m","m","i","s","t">>,  \* programmist
    <<"r","a","z","r","a","b","o","t","ch","i","k">>,  \* razrabotchik
    <<"t","e","s","t","i","r","o","v","sch","i","k">>,  \* testirovschik
    <<"lat_q","lat_a">>,  \* qa
    <<"lat_d","lat_e","lat_v","lat_o","lat_p","lat_s">>,  \* devops
    <<"s","i","s","a","d","m","i","n">>,  \* sisadmin
    <<"s","i","s","t","e","m","n","y","j"," ","a","d","m","i","n","i","s","t","r","a","t","o","r">>,  \* sistemnyj administrator
    <<"v","e","b","-">>,  \* veb-
    <<"lat_f","lat_r","lat_o","lat_n","lat_t","lat_e","lat_n","lat_d">>,  \* frontend
    <<"lat_b","lat_a","lat_c","lat_k","lat_e","lat_n","lat_d">>,  \* backend
    <<"lat_f","lat_u","lat_l","lat_l","lat_s","lat_t","lat_a","lat_c","lat_k">>,  \* fullstack
    <<"lat_d","lat_a","lat_t","lat_a"," ","lat_s","lat_c","lat_i","lat_e","lat_n","lat_t","lat_i","lat_s","lat_t">>,  \* data scientist
    <<"a","n","a","l","i","t","i","k"," ","d","a","n","n","y","h">>,  \* analitik dannyh
    <<"g","e","j","m","-","d","i","z","a","j","n","e","r">>,  \* gejm-dizajner
    <<"b","u","h","g","a","l","t","e","r">>,  \* buhgalter
    <<"eh","k","o","n","o","m","i","s","t">>,  \* ehkonomist
    <<"f","i","n","a","n","s","i","s","t">>,  \* finansist
    <<"a","u","d","i","t","o","r">>,  \* auditor
    <<"yu","r","i","s","t">>,  \* yurist
    <<"a","d","v","o","k","a","t">>,  \* advokat
    <<"n","o","t","a","r","i","u","s">>,  \* notarius
    <<"s","l","e","d","o","v","a","t","e","l","q">>,  \* sledovatelq
    <<"r","e","k","r","u","t","e","r">>,  \* rekruter
    <<"lat_h","lat_r","-">>,  \* hr-
    <<"eh","j","ch","a","r">>,  \* ehjchar
    <<"k","a","d","r">>,  \* kadr
    <<"s","p","e","c","i","a","l","i","s","t"," ","p","o"," ","p","o","d","b","o","r","u">>,  \* specialist po podboru
    <<"u","b","o","r","sch","i","k">>,  \* uborschik
    <<"u","b","o","r","sch","i","c","a">>,  \* uborschica
    <<"k","l","i","n","i","n","g">>,  \* klining
    <<"d","v","o","r","n","i","k">>,  \* dvornik
    <<"g","a","r","d","e","r","o","b","sch","i","k">>,  \* garderobschik
    <<"v","o","d","i","t","e","l","q">>,  \* voditelq
    <<"k","u","r","q","e","r">>,  \* kurqer
    <<"eh","k","s","p","e","d","i","t","o","r">>,  \* ehkspeditor
    <<"l","o","g","i","s","t">>,  \* logist
    <<"d","i","s","p","e","t","ch","e","r">>,  \* dispetcher
    <<"p","o","v","a","r">>,  \* povar
    <<"b","a","r","m","e","n">>,  \* barmen
    <<"o","f","i","c","i","a","n","t">>,  \* oficiant
    <<"b","a","r","i","s","t","a">>,  \* barista
    <<"p","e","k","a","r","q">>,  \* pekarq
    <<"k","o","n","d","i","t","e","r">>,  \* konditer
    <<"g","o","r","n","i","ch","n","a","ya">>,  \* gornichnaya
    <<"h","o","s","t","e","s">>,  \* hostes
    <<"o","h","r","a","n","n","i","k">>,  \* ohrannik
    <<"v","a","h","t","e","r">>,  \* vahter
    <<"k","o","n","t","r","o","l","e","r">>,  \* kontroler
    <<"v","r","a","ch">>,  \* vrach
    <<"m","e","d","s","e","s","t","r","a">>,  \* medsestra
    <<"f","e","l","q","d","sh","e","r">>,  \* felqdsher
    <<"k","o","s","m","e","t","o","l","o","g">>,  \* kosmetolog
    <<"p","a","r","i","k","m","a","h","e","r">>,  \* parikmaher
    <<"m","a","s","s","a","zh","i","s","t">>,  \* massazhist
    <<"t","r","e","n","e","r">>,  \* trener
    <<"i","n","s","t","r","u","k","t","o","r">>,  \* instruktor
    <<"p","r","e","p","o","d","a","v","a","t","e","l","q">>,  \* prepodavatelq
    <<"u","ch","i","t","e","l","q">>,  \* uchitelq
    <<"v","o","s","p","i","t","a","t","e","l","q">>,  \* vospitatelq
    <<"m","e","t","o","d","i","s","t">>,  \* metodist
    <<"d","i","z","a","j","n","e","r">>,  \* dizajner
    <<"h","u","d","o","zh","n","i","k">>,  \* hudozhnik
    <<"f","o","t","o","g","r","a","f">>,  \* fotograf
    <<"v","i","z","a","zh","i","s","t">>,  \* vizazhist
    <<"a","g","r","o","n","o","m">>,  \* agronom
    <<"z","o","o","t","e","h","n","i","k">>,  \* zootehnik
    <<"v","e","t","e","r","i","n","a","r">>,  \* veterinar
    <<"p","s","i","h","o","l","o","g">>,  \* psiholog
    <<"s","o","c","i","o","l","o","g">>  \* sociolog
  >>

\* hh_api_client.py _get_industrial_include_keywords (a set: each keyword once)
industrial_include_keywords ==
  <<
    <<"i","n","zh","e","n","e","r">>,  \* inzhener
    <<"t","e","h","n","o","l","o","g">>,  \* tehnolog
    <<"k","o","n","s","t","r","u","k","t","o","r">>,  \* konstruktor
    <<"m","e","h","a","n","i","k">>,  \* mehanik
    <<"eh","l","e","k","t","r","i","k">>,  \* ehlektrik
    <<"eh","n","e","r","g","e","t","i","k">>,  \* ehnergetik
    <<"p","r","o","e","k","t","i","r","o","v","sch","i","k">>,  \* proektirovschik
    <<"t","e","h","n","i","k">>,  \* tehnik
    <<"s","v","a","r","sch","i","k">>,  \* svarschik
    <<"t","o","k","a","r","q">>,  \* tokarq
    <<"f","r","e","z","e","r","o","v","sch","i","k">>,  \* frezerovschik
    <<"s","l","e","s","a","r","q">>,  \* slesarq
    <<"s","t","a","n","o","ch","n","i","k">>,  \* stanochnik
    <<"n","a","l","a","d","ch","i","k">>,  \* naladchik
    <<"o","p","e","r","a","t","o","r">>,  \* operator
    <<"a","p","p","a","r","a","t","ch","i","k">>,  \* apparatchik
    <<"m","a","sh","i","n","i","s","t">>,  \* mashinist
    <<"k","i","p">>,  \* kip
    <<"k","i","p","i","a">>,  \* kipia
    <<"k","i","p"," ","i"," ","a">>,  \* kip i a
    <<"k","o","n","t","r","o","l","q","n","o","-","i","z","m","e","r","i","t","e","l","q","n","y","e"," ","p","r","i","b","o","r","y">>,  \* kontrolqno-izmeritelqnye pribory
    <<"p","r","i","b","o","r","i","s","t">>,  \* priborist
    <<"a","s","u"," ","t","p">>,  \* asu tp
    <<"a","s","u","t","p">>,  \* asutp
    <<"a","v","t","o","m","a","t","i","z","i","r","o","v","a","n","n","y","e"," ","s","i","s","t","e","m","y">>,  \* avtomatizirovannye sistemy
    <<"a","v","t","o","m","a","t","i","k","a">>,  \* avtomatika
    <<"t","e","l","e","m","e","h","a","n","i","k">>,  \* telemehanik
    <<"m","e","t","a","l","l","u","r","g">>,  \* metallurg
    <<"l","i","t","e","j","sch","i","k">>,  \* litejschik
    <<"k","u","z","n","e","c">>,  \* kuznec
    <<"v","o","l","o","ch","i","l","q","sch","i","k">>,  \* volochilqschik
    <<"p","r","o","k","a","t","ch","i","k">>,  \* prokatchik
    <<"t","e","r","m","i","s","t">>,  \* termist
    <<"g","a","l","q","v","a","n","i","k">>,  \* galqvanik
    <<"h","i","m","i","k">>,  \* himik
    <<"l","a","b","o","r","a","n","t">>,  \* laborant
    <<"a","n","a","l","i","t","i","k">>,  \* analitik
    <<"t","e","h","n","o","l","o","g"," ","h","i","m","i","k">>,  \* tehnolog himik
    <<"eh","l","e","k","t","r","o","m","o","n","t","e","r">>,  \* ehlektromonter
    <<"eh","l","e","k","t","r","o","m","o","n","t","a","zh","n","i","k">>,  \* ehlektromontazhnik
    <<"eh","l","e","k","t","r","o","m","e","h","a","n","i","k">>,  \* ehlektromehanik
    <<"r","e","l","e","j","sch","i","k">>,  \* relejschik
    <<"eh","l","e","k","t","r","o","eh","n","e","r","g","e","t","i","k">>,  \* ehlektroehnergetik
    <<"m","o","n","t","a","zh","n","i","k">>,  \* montazhnik
    <<"s","t","r","o","i","t","e","l","q">>,  \* stroitelq
    <<"k","a","m","e","n","sch","i","k">>,  \* kamenschik
    <<"sh","t","u","k","a","t","u","r">>,  \* shtukatur
    <<"m","a","l","ya","r">>,  \* malyar
    <<"k","r","o","v","e","l","q","sch","i","k">>,  \* krovelqschik
    <<"a","r","m","a","t","u","r","sch","i","k">>,  \* armaturschik
    <<"b","e","t","o","n","sch","i","k">>,  \* betonschik
    <<"n","e","f","t","ya","n","i","k">>,  \* neftyanik
    <<"g","a","z","o","v","i","k">>,  \* gazovik
    <<"b","u","r","i","l","q","sch","i","k">>,  \* burilqschik
    <<"o","p","e","r","a","t","o","r"," ","d","o","b","y","ch","i">>,  \* operator dobychi
    <<"o","p","e","r","a","t","o","r"," ","t","e","h","n","o","l","o","g","i","ch","e","s","k","i","h"," ","u","s","t","a","n","o","v","o","k">>,  \* operator tehnologicheskih ustanovok
    <<"g","o","r","n","ya","k">>,  \* gornyak
    <<"v","z","r","y","v","n","i","k">>,  \* vzryvnik
    <<"p","r","o","h","o","d","ch","i","k">>,  \* prohodchik
    <<"m","a","r","k","sh","e","j","d","e","r">>,  \* markshejder
    <<"l","e","s","n","i","k">>,  \* lesnik
    <<"d","e","r","e","v","o","o","b","r","a","b","o","t","ch","i","k">>,  \* derevoobrabotchik
    <<"s","t","o","l","ya","r">>,  \* stolyar
    <<"p","l","o","t","n","i","k">>,  \* plotnik
    <<"b","u","m","a","zh","n","i","k">>,  \* bumazhnik
    <<"c","e","l","l","yu","l","o","z","n","i","k">>,  \* cellyuloznik
    <<"t","e","h","n","o","l","o","g"," ","p","i","sch","e","v","o","j">>,  \* tehnolog pischevoj
    <<"a","p","p","a","r","a","t","ch","i","k"," ","p","i","sch","e","v","o","j">>,  \* apparatchik pischevoj
    <<"o","p","e","r","a","t","o","r"," ","l","i","n","i","i">>,  \* operator linii
    <<"t","e","k","s","t","i","l","q","sch","i","k">>,  \* tekstilqschik
    <<"p","r","ya","d","i","l","q","sch","i","k">>,  \* pryadilqschik
    <<"t","k","a","ch">>,  \* tkach
    <<"m","e","t","r","o","l","o","g">>,  \* metrolog
    <<"k","o","n","t","r","o","l","e","r"," ","k","a","ch","e","s","t","v","a">>,  \* kontroler kachestva
    <<"l","a","b","o","r","a","n","t"," ","h","i","m","i","k","o","-","b","a","k","t","e","r","i","o","l","o","g","i","ch","e","s","k","i","j">>,  \* laborant himiko-bakteriologicheskij
    <<"b","r","a","k","e","r">>,  \* braker
    <<"r","e","m","o","n","t","n","i","k">>,  \* remontnik
    <<"m","e","h","a","n","i","k"," ","p","o"," ","r","e","m","o","n","t","u">>,  \* mehanik po remontu
    <<"eh","l","e","k","t","r","i","k"," ","p","o"," ","r","e","m","o","n","t","u">>,  \* ehlektrik po remontu
    <<"s","l","e","s","a","r","q","-","r","e","m","o","n","t","n","i","k">>,  \* slesarq-remontnik
    <<"m","a","s","t","e","r">>,  \* master
    <<"b","r","i","g","a","d","i","r">>,  \* brigadir
    <<"n","a","ch","a","l","q","n","i","k"," ","u","ch","a","s","t","k","a">>,  \* nachalqnik uchastka
    <<"n","a","ch","a","l","q","n","i","k"," ","c","e","h","a">>,  \* nachalqnik ceha
    <<"p","r","o","i","z","v","o","d","i","t","e","l","q"," ","r","a","b","o","t">>,  \* proizvoditelq rabot
    <<"p","r","o","r","a","b">>  \* prorab
  >>

T_OpytInzhenerom == <<"O","p","y","t"," ","r","a","b","o","t","y"," ","i","n","zh","e","n","e","r","o","m">>
T_ZnanieOfisa == <<"Z","n","a","n","i","e"," ","o","f","i","s","n","y","h"," ","p","r","o","g","r","a","m","m">>

\* vacancy.get('name', '') as the API gives it: absent or a string
CheckedNames ==
    { [kind |-> "absent", text |-> <<>>],
      [kind |-> "str", text |-> <<>>],
      [kind |-> "str", text |-> T_Inzhener],
      [kind |-> "str", text |-> T_Buhgalter],
      [kind |-> "str", text |-> T_InzhenerProgrammist],
      [kind |-> "str", text |-> T_Kladovschik] }

\* vacancy['snippet']: no snippet, a snippet without "requirement", a snippet
\* whose requirement is null (the API's value for a vacancy without one), or
\* a requirement text
CheckedSnippets ==
    { [kind |-> "absent", text |-> <<>>],
      [kind |-> "no_requirement", text |-> <<>>],
      [kind |-> "null", text |-> <<>>],
      [kind |-> "str", text |-> T_OpytInzhenerom],
      [kind |-> "str", text |-> T_ZnanieOfisa] }

IndustryIds == {"7", "50"}
RoleIds == {"40", "96"}

\* vacancy['industry'].get('id'): "" stands for a vacancy without industry
CheckedIndustries == {""} \cup IndustryIds

CheckedVacancies ==
    [name : CheckedNames, snippet : CheckedSnippets, industry : CheckedIndustries,
     professional_roles : {<<>>, <<"40">>, <<"96", "40">>}]

\* the client whose method runs
Clients == {"UltraIndustrialClient", "SixMonthIndustrialClient"}

CheckResult(result, filtered) == [result |-> result, vacancies_filtered_out |-> filtered]

\* vacancy.get('snippet', {}).get('requirement', '').lower()
SnippetRequirement(vacancy) ==
    IF vacancy.snippet.kind = "null" THEN [raised |-> TRUE, text |-> <<>>]
    ELSE IF vacancy.snippet.kind = "str"
    THEN [raised |-> FALSE, text |-> lower(vacancy.snippet.text)]
    ELSE [raised |-> FALSE, text |-> <<>>]

\* _is_true_industrial_vacancy(vacancy) on a client with the given id sets
is_true_industrial_vacancy(client, vacancy, industry_ids, role_ids) ==
    LET name == IF vacancy.name.kind = "absent" THEN <<>> ELSE lower(vacancy.name.text)
        snippet == SnippetRequirement(vacancy)
    IN  IF snippet.raised THEN CheckResult("raise", 0)
        ELSE IF name = <<>> THEN CheckResult("False", 0)
        ELSE IF AnyIn(non_industrial_keywords, name) THEN CheckResult("False", 1)
        ELSE IF \E k \in 1..Len(industrial_include_keywords) :
                    \/ Contains(industrial_include_keywords[k], name)
                    \/ Contains(industrial_include_keywords[k], snippet.text)
        THEN CheckResult("True", 0)
        ELSE IF /\ client = "UltraIndustrialClient"
                /\ vacancy.industry # ""
                /\ vacancy.industry \in industry_ids
        THEN CheckResult("True", 0)
        ELSE IF \E i \in 1..Len(vacancy.professional_roles) :
                    vacancy.professional_roles[i] \in role_ids
        THEN CheckResult("True", 0)
        ELSE CheckResult("False", 1)

InitIndustrial == IdleMerger /\ InitDbState /\ IdleStats /\ IdleTools

IsTrueIndustrialVacancy ==
    /\ ind_out = NotChecked
    /\ \E client \in Clients, vacancy \in CheckedVacancies,
          industry_ids \in SUBSET {"7"}, role_ids \in SUBSET {"40"} :
          /\ client = "SixMonthIndustrialClient" => industry_ids = {}
          /\ ind_in' = [client |-> client, vacancy |-> vacancy,
                        industrial_industry_ids |-> industry_ids,
                        industrial_professional_role_ids |-> role_ids]
          /\ ind_out' = is_true_industrial_vacancy(client, vacancy, industry_ids, role_ids)
    /\ UNCHANGED <<coreVars, filterVars, validatorVars, reportVars,
                 collectorVars, requestVars>>

NextIndustrial == IsTrueIndustrialVacancy

SpecIndustrial == InitIndustrial /\ [][NextIndustrial]_vars

(***************************************************************************)
(* C24.  _is_true_industrial_vacancy checks exclusion before inclusion: it *)
(* returns False for every vacancy whose lower-cased title is empty or     *)
(* holds a non-industrial keyword, even when title or snippet hold an      *)
(* include keyword or the industry or a role id is industrial; otherwise   *)
(* it returns True iff an include keyword occurs in title or snippet, or   *)
(* the industry id or a role id is in the industrial id sets.              *)
(***************************************************************************)
CheckedTitle == IF ind_in.vacancy.name.kind = "absent" THEN <<>> ELSE lower(ind_in.vacancy.name.text)

CheckedRequirement ==
    IF ind_in.vacancy.snippet.kind = "str" THEN lower(ind_in.vacancy.snippet.text) ELSE <<>>

IndustrialById ==
    \/ ind_in.vacancy.industry \in ind_in.industrial_industry_ids
    \/ \E i \in 1..Len(ind_in.vacancy.professional_roles) :
          ind_in.vacancy.professional_roles[i] \in ind_in.industrial_professional_role_ids

C24_ExclusionBeforeInclusion ==
    ind_out # NotChecked =>
        IF CheckedTitle = <<>> \/ AnyIn(non_industrial_keywords, CheckedTitle)
        THEN ind_out.result = "False"
        ELSE /\ ind_out.result \in {"True", "False"}
             /\ ind_out.result = "True" <=>
                   \/ AnyIn(industrial_include_keywords, CheckedTitle)
                   \/ AnyIn(industrial_include_keywords, CheckedRequirement)
                   \/ IndustrialById

(***************************************************************************)
(* data_validator.py: DataValidator.validate_dataset and the summary.      *)
(*   A report is three categories of checks; a check is its name and its   *)
(*   status.  Scores are in hundredths (round(x, 2)).                      *)
(***************************************************************************)
FrameRows == 2          \* rows of a frame that is not empty

Columns == {"id", "name", "published_at", "salary_from_rub", "salary_to_rub",
            "position_level", "industry_segment", "published_year"}

Check(name, status) == [name |-> name, status |-> status]

\* a check the code performs only when its columns are there
Optional(present, name, status) == IF present THEN <<Check(name, status)>> ELSE <<>>

\* the statuses a check over the values can end with: nothing fails in a
\* frame without rows
ValueStatuses(rows) == IF rows = 0 THEN {"PASS"} ELSE {"PASS", "FAIL"}

\* _perform_basic_checks
perform_basic_checks(rows, columns, type_issues) ==
    << Check("dataset_size", IF rows > 0 THEN "PASS" ELSE "FAIL"),
       Check("required_columns",
             IF {"id", "name", "published_at"} \subseteq columns THEN "PASS" ELSE "FAIL"),
       Check("data_types", IF ~type_issues THEN "PASS" ELSE "WARNING") >>

\* _perform_integrity_checks
perform_integrity_checks(columns, future_dates, salary_ranges, unique_ids) ==
    Optional("published_at" \in columns, "future_dates", future_dates)
    \o Optional({"salary_from_rub", "salary_to_rub"} \subseteq columns,
                "salary_ranges", salary_ranges)
    \o Optional("id" \in columns, "unique_ids", unique_ids)

\* _perform_consistency_checks
perform_consistency_checks(columns, position_levels, industry_segments, date_consistency) ==
    Optional("position_level" \in columns, "position_levels", position_levels)
    \o Optional("industry_segment" \in columns, "industry_segments", industry_segments)
    \o Optional({"published_at", "published_year"} \subseteq columns,
                "date_consistency", date_consistency)

CountStatus(checks, status) == Cardinality({i \in 1..Len(checks) : checks[i].status = status})

\* round(x, 2) of passed / total * 100, in hundredths
Score(passed, total) == (2 * passed * 10000 + total) \div (2 * total)

\* _generate_validation_summary over the checks of the three categories
generate_validation_summary(checks, total_missing, total_cells) ==
    LET total_checks == Len(checks)
        passed_checks == CountStatus(checks, "PASS")
    IN  [total_checks |-> total_checks,
         passed_checks |-> passed_checks,
         failed_checks |-> CountStatus(checks, "FAIL"),
         warning_checks |-> CountStatus(checks, "WARNING"),
         overall_score |-> IF total_checks > 0 THEN Score(passed_checks, total_checks) ELSE 0,
         data_completeness |-> IF total_cells > 0
                               THEN 10000 - Score(total_missing, total_cells)
                               ELSE 10000]

InitValidator == IdleMerger /\ InitDbState /\ IdleStats /\ IdleTools

\* validate_dataset(df): df is given by its rows, its columns and what the
\* checks find in its values
ValidateDataset ==
    /\ validation_report = <<>>
    /\ \E rows \in {0, FrameRows}, columns \in SUBSET Columns, type_issues \in BOOLEAN,
          total_missing \in {0, 1} :
       \E future_dates \in ValueStatuses(rows) \cup {"SKIPPED"},
          salary_ranges \in ValueStatuses(rows),
          unique_ids \in ValueStatuses(rows),
          position_levels \in ValueStatuses(rows),
          industry_segments \in ValueStatuses(rows),
          date_consistency \in ValueStatuses(rows) \cup {"SKIPPED"} :
          LET total_cells == rows * Cardinality(columns)
              checks == perform_basic_checks(rows, columns, type_issues)
                        \o perform_integrity_checks(columns, future_dates, salary_ranges,
                                                    unique_ids)
                        \o perform_consistency_checks(columns, position_levels,
                                                      industry_segments, date_consistency)
          IN  /\ type_issues => (columns \cap {"id", "published_at"} # {})
              /\ total_missing <= total_cells
              /\ validation_report' =
                    [checks |-> checks,
                     total_missing |-> total_missing,
                     total_cells |-> total_cells,
                     summary |-> generate_validation_summary(checks, total_missing,
                                                             total_cells)]
    /\ UNCHANGED <<coreVars, filterVars, industrialVars, reportVars,
                 collectorVars, requestVars>>

NextValidator == ValidateDataset

SpecValidator == InitValidator /\ [][NextValidator]_vars

(***************************************************************************)
(* C25.  In the validation summary a check whose status is SKIPPED is not  *)
(* counted in the overall score: it changes none of total_checks,          *)
(* passed_checks, failed_checks, warning_checks, and overall_score =       *)
(* 100 * passed_checks / total_checks is the same as if the skipped check  *)
(* were absent.                                                            *)
(***************************************************************************)
WithoutSkipped(checks) == SelectSeq(checks, LAMBDA c : c.status # "SKIPPED")

Counters == {"total_checks", "passed_checks", "failed_checks", "warning_checks",
             "overall_score"}

C25_SkippedCheckNotCounted ==
    validation_report # <<>> =>
        LET absent == generate_validation_summary(WithoutSkipped(validation_report.checks),
                                                  validation_report.total_missing,
                                                  validation_report.total_cells)
        IN  /\ \A k \in Counters : validation_report.summary[k] = absent[k]
            /\ validation_report.summary.total_checks > 0 =>
                  validation_report.summary.overall_score =
                      Score(validation_report.summary.passed_checks,
                            validation_report.summary.total_checks)

(***************************************************************************)
(* vacancy_merger.py: merge_and_analyze called repeatedly on one           *)
(* VacancyMerger, the files of data_dir changing between the calls.        *)
(***************************************************************************)
MaxCalls == 2           \* merge_and_analyze calls on one VacancyMerger
MaxReportFiles == 2     \* JSON files in data_dir at a call
MaxFileLen == 2         \* vacancies in one file

\* vacancies with or without id, with or without salary
ReportVacancies ==
    { [Vacancy(i, T_Slesar) EXCEPT !.salary = sal] :
        i \in MergerIds, sal \in {NoSalary, Salary(<<50000>>, <<70000>>, "RUR")} }

ReportFiles ==
    { [kind |-> "list", data |-> d] : d \in SeqsUpTo(ReportVacancies, MaxFileLen) }
    \cup { [kind |-> "notalist", data |-> <<>>] }

\* analyze_vacancies: the salaries list (salary_from, then salary_to, per vacancy)
RECURSIVE SalariesOf(_)
SalariesOf(vacancies) ==
    IF vacancies = <<>> THEN <<>>
    ELSE LET salary == Head(vacancies).salary
         IN  (IF salary.kind = "dict" THEN salary.from \o salary.to ELSE <<>>)
             \o SalariesOf(Tail(vacancies))

RECURSIVE SumSeq(_)
SumSeq(seq) == IF seq = <<>> THEN 0 ELSE Head(seq) + SumSeq(Tail(seq))

\* sorted(salaries)
RECURSIVE SortedSeq(_)
SortedSeq(seq) ==
    IF seq = <<>> THEN <<>>
    ELSE LET least == CHOOSE i \in 1..Len(seq) : \A j \in 1..Len(seq) : seq[i] <= seq[j]
         IN  <<seq[least]>>
             \o SortedSeq([k \in 1..(Len(seq) - 1) |-> IF k < least THEN seq[k] ELSE seq[k + 1]])

\* analyze_vacancies: salary_stats and collection_methods (no modelled vacancy
\* has a collection_method, so all are counted under 'unknown')
analyze_vacancies(st, vacancies) ==
    IF vacancies = <<>> THEN st
    ELSE LET salaries == SalariesOf(vacancies)
         IN  [st EXCEPT
                !.salary_stats =
                    IF salaries # <<>>
                    THEN << [min |-> SortedSeq(salaries)[1],
                             max |-> SortedSeq(salaries)[Len(salaries)],
                             avg |-> SumSeq(salaries) \div Len(salaries),
                             median |-> SortedSeq(salaries)[(Len(salaries) \div 2) + 1],
                             count |-> Len(salaries)] >>
                    ELSE @,
                !.collection_methods = << [method |-> "unknown", count |-> Len(vacancies)] >>]

\* generate_report: the divisors of the divisions it executes, in order
ReportDivisors(st) ==
    <<st.total_vacancies_before>>
    \o [k \in 1..Len(st.collection_methods) |-> st.total_vacancies_after]
    \o (IF st.salary_stats # <<>> THEN <<st.total_vacancies_after>> ELSE <<>>)

generate_report(st) ==
    IF \E k \in 1..Len(ReportDivisors(st)) : ReportDivisors(st)[k] = 0
    THEN "ZeroDivisionError"
    ELSE "report"

\* merge_and_analyze(): find_json_files, load_and_merge_files,
\* remove_duplicates, analyze_vacancies, generate_report
merge_and_analyze(m, json_files) ==
    IF json_files = <<>> THEN [m EXCEPT !.calls = @ + 1, !.outcome = "no_files"]
    ELSE LET loaded == load_and_merge_files(json_files)
             st1 == [m.stats EXCEPT
                       !.total_files_processed = @ + FilesProcessed(json_files),
                       !.total_vacancies_before = Len(loaded)]
         IN  IF loaded = <<>>
             THEN [m EXCEPT !.stats = st1, !.calls = @ + 1, !.outcome = "no_vacancies"]
             ELSE LET unique == remove_duplicates(loaded)
                      st2 == [st1 EXCEPT
                                !.duplicates_removed = Len(loaded) - Len(unique),
                                !.total_vacancies_after = Len(unique)]
                      st3 == analyze_vacancies(st2, unique)
                  IN  [stats |-> st3, calls |-> m.calls + 1, outcome |-> generate_report(st3)]

InitReport == IdleMerger /\ InitDbState /\ IdleStats /\ IdleTools

MergeAndAnalyze ==
    /\ merger.calls < MaxCalls
    /\ \E json_files \in SeqsUpTo(ReportFiles, MaxReportFiles) :
          merger' = merge_and_analyze(merger, json_files)
    /\ UNCHANGED <<coreVars, filterVars, industrialVars, validatorVars,
                 collectorVars, requestVars>>

NextReport == MergeAndAnalyze

SpecReport == InitReport /\ [][NextReport]_vars

(***************************************************************************)
(* C26.  For any sequence of merge_and_analyze calls on one VacancyMerger  *)
(* generate_report never divides by zero: whenever it runs,                *)
(* total_vacancies_before > 0, and total_vacancies_after > 0 whenever      *)
(* stats.collection_methods or stats.salary_stats is non-empty.            *)
(***************************************************************************)
ReportRan == merger.outcome \in {"report", "ZeroDivisionError"}

C26_ReportNeverDividesByZero ==
    ReportRan =>
        /\ merger.outcome = "report"
        /\ merger.stats.total_vacancies_before > 0
        /\ (merger.stats.collection_methods # <<>> \/ merger.stats.salary_stats # <<>>)
              => merger.stats.total_vacancies_after > 0

(***************************************************************************)
(* hh_api_client.py: UltraIndustrialClient collecting one priority region. *)
(*   _collect_priority_regions -> _collect_region_ultra_deep ->            *)
(*   _collect_industries_in_region, whose asyncio.gather runs one          *)
(*   _collect_industry_pages_deep coroutine per industry.  A coroutine     *)
(*   gives up control only at an await: the code between two awaits is one *)
(*   step.  No professional role is industrial, so the role stage of       *)
(*   _collect_region_ultra_deep is skipped.                                *)
(***************************************************************************)
MaxPages == 2           \* max_pages: pages one coroutine requests (500 in the source)
MaxPageItems == 2       \* items of one page

target_vacancies == 500000

\* list(self.industrial_industry_ids): one batch, one coroutine per industry
industries_list == <<"7", "50">>

BodyIndustrial ==
    [name |-> [kind |-> "str", text |-> T_Inzhener],
     snippet |-> [kind |-> "absent", text |-> <<>>],
     industry |-> "", professional_roles |-> <<>>]

BodyOffice == [BodyIndustrial EXCEPT !.name.text = T_Buhgalter]

BodyNullRequirement == [BodyIndustrial EXCEPT !.snippet.kind = "null"]

\* the vacancies the search answers with: id and what the filter reads
PageItems ==
    { [id |-> "1", body |-> BodyIndustrial],
      [id |-> "2", body |-> BodyIndustrial],
      [id |-> NoId, body |-> BodyIndustrial],
      [id |-> "1", body |-> BodyOffice],
      [id |-> "2", body |-> BodyNullRequirement] }

\* self._is_true_industrial_vacancy(vacancy) on this client, per body
IndustrialCheck ==
    [body \in {BodyIndustrial, BodyOffice, BodyNullRequirement} |->
        is_true_industrial_vacancy("UltraIndustrialClient", body, IndustryIds, {})]

\* the vacancy as it is appended: the id and the members the loop adds
Collected(vacancy, industry_id) ==
    [id |-> vacancy.id, collection_method |-> "industry", industry_id |-> industry_id]

\* mutant: an id is looked up in the coroutine's own list, not in the shared set
RECURSIVE FilterItemsOwnList(_, _, _, _, _)
FilterItemsOwnList(items, industry_id, vacancies, processed, filtered_out) ==
    IF items = <<>>
    THEN [vacancies |-> vacancies, processed_vacancy_ids |-> processed,
          vacancies_filtered_out |-> filtered_out]
    ELSE LET vacancy == Head(items)
             vacancy_id == vacancy.id
         IN  IF ~(Truthy(vacancy_id) /\ vacancy_id \notin IdsOf(vacancies))
             THEN FilterItemsOwnList(Tail(items), industry_id, vacancies, processed,
                                     filtered_out)
             ELSE IF IndustrialCheck[vacancy.body].result = "True"
             THEN FilterItemsOwnList(Tail(items), industry_id,
                                     Append(vacancies, Collected(vacancy, industry_id)),
                                     processed \cup {vacancy_id}, filtered_out)
             ELSE FilterItemsOwnList(Tail(items), industry_id, vacancies, processed,
                                     filtered_out
                                     + IndustrialCheck[vacancy.body].vacancies_filtered_out)

\* the for loop over the items of a page; it contains no await
RECURSIVE FilterItems(_, _, _, _, _)
FilterItems(items, industry_id, vacancies, processed, filtered_out) ==
    IF items = <<>>
    THEN [vacancies |-> vacancies, processed_vacancy_ids |-> processed,
          vacancies_filtered_out |-> filtered_out]
    ELSE LET vacancy == Head(items)
             vacancy_id == vacancy.id
         IN  IF ~(Truthy(vacancy_id) /\ vacancy_id \notin processed)
             THEN FilterItems(Tail(items), industry_id, vacancies, processed, filtered_out)
             ELSE IF IndustrialCheck[vacancy.body].result = "True"
             THEN FilterItems(Tail(items), industry_id,
                              Append(vacancies, Collected(vacancy, industry_id)),
                              processed \cup {vacancy_id}, filtered_out)
             ELSE FilterItems(Tail(items), industry_id, vacancies, processed,
                              filtered_out
                              + IndustrialCheck[vacancy.body].vacancies_filtered_out)

\* a coroutine object created by _collect_industry_pages_deep(...)
NewTask == [pc |-> "loop", page |-> 0, vacancies |-> <<>>, offered |-> {}]

InitCollector == IdleMerger /\ InitDbState /\ IdleStats /\ IdleTools

otherThanCollector ==
    <<coreVars, filterVars, industrialVars, validatorVars, reportVars, requestVars>>

otherThanRequests ==
    <<coreVars, filterVars, industrialVars, validatorVars, reportVars, collectorVars>>

\* _collect_industries_in_region up to its gather: one coroutine per industry
CreateIndustryTasks ==
    /\ collector.pc = "start"
    /\ tasks' = [industry_id \in {industries_list[i] : i \in 1..Len(industries_list)} |->
                    IF collector.stats.vacancies_collected >= target_vacancies
                    THEN [NewTask EXCEPT !.pc = "done"]
                    ELSE NewTask]
    /\ collector' = [collector EXCEPT !.pc = "gather"]
    /\ UNCHANGED otherThanCollector

\* _collect_industry_pages_deep, from the loop head to the await of the search
RequestPage ==
    /\ collector.pc = "gather"
    /\ \E industry_id \in DOMAIN tasks :
          /\ tasks[industry_id].pc = "loop"
          /\ tasks' = [tasks EXCEPT ![industry_id].pc =
                          IF \/ tasks[industry_id].page >= MaxPages
                             \/ collector.stats.vacancies_collected >= target_vacancies
                          THEN "done"
                          ELSE "await"]
    /\ UNCHANGED <<collector, otherThanCollector>>

\* _collect_industry_pages_deep, from the answer of the search to the next
\* loop head or the return
ReceivePage ==
    /\ collector.pc = "gather"
    /\ \E industry_id \in DOMAIN tasks :
          /\ tasks[industry_id].pc = "await"
          /\ \E items \in SeqsUpTo(PageItems, MaxPageItems), last_page \in BOOLEAN :
                LET task == tasks[industry_id]
                    filtered == FilterItems(items, industry_id, task.vacancies,
                                            collector.processed_vacancy_ids, 0)
                IN  /\ tasks' = [tasks EXCEPT ![industry_id] =
                          [pc |-> IF items = <<>> \/ last_page THEN "done" ELSE "loop",
                           page |-> IF items = <<>> \/ last_page THEN task.page
                                    ELSE task.page + 1,
                           vacancies |-> filtered.vacancies,
                           offered |-> task.offered
                                       \cup {items[k].id : k \in {j \in 1..Len(items) :
                                               /\ Truthy(items[j].id)
                                               /\ IndustrialCheck[items[j].body].result
                                                    = "True"}}]]
                    /\ collector' = [collector EXCEPT
                          !.processed_vacancy_ids = filtered.processed_vacancy_ids,
                          !.stats.vacancies_filtered_out =
                              @ + filtered.vacancies_filtered_out]
    /\ UNCHANGED otherThanCollector

RECURSIVE Results(_)
Results(industries) ==
    IF industries = <<>> THEN <<>>
    ELSE tasks[Head(industries)].vacancies \o Results(Tail(industries))

\* _collect_industries_in_region after its gather, and the return through
\* _collect_region_ultra_deep
GatherIndustries ==
    /\ collector.pc = "gather"
    /\ \A industry_id \in DOMAIN tasks : tasks[industry_id].pc = "done"
    /\ collector' = [collector EXCEPT
          !.industry_vacancies = Results(industries_list),
          !.stats.vacancies_collected = @ + Len(Results(industries_list)),
          !.pc = "region"]
    /\ UNCHANGED <<tasks, otherThanCollector>>

\* _collect_priority_regions: the statements after the region's await
RegionCollected ==
    /\ collector.pc = "region"
    /\ collector' = [collector EXCEPT
          !.stats.consecutive_empty_regions =
              IF Len(collector.industry_vacancies) = 0 THEN @ + 1 ELSE 0,
          !.vacancies = @ \o collector.industry_vacancies,
          !.stats.vacancies_collected = @ + Len(collector.industry_vacancies),
          !.stats.regions_processed = @ + 1,
          !.pc = "collected"]
    /\ UNCHANGED <<tasks, otherThanCollector>>

NextCollector ==
    \/ CreateIndustryTasks
    \/ RequestPage
    \/ ReceivePage
    \/ GatherIndustries
    \/ RegionCollected

SpecCollector == InitCollector /\ [][NextCollector]_vars

(***************************************************************************)
(* C27.  For any interleaving of the page-collector coroutines running     *)
(* concurrently on one client, no vacancy identifier is appended to more   *)
(* than one result list or twice to the same list, and every appended      *)
(* identifier is in processed_vacancy_ids.                                 *)
(***************************************************************************)
C27_NoIdentifierAppendedTwice ==
    \A t \in DOMAIN tasks : \A k \in 1..Len(tasks[t].vacancies) :
       /\ tasks[t].vacancies[k].id \in collector.processed_vacancy_ids
       /\ \A u \in DOMAIN tasks : \A m \in 1..Len(tasks[u].vacancies) :
             tasks[u].vacancies[m].id = tasks[t].vacancies[k].id => (u = t /\ m = k)

\* both coroutines were offered vacancy "1" on pages they received while the
\* other was running, and it is in the list of the second one only
C27_Witness ==
    /\ collector.pc = "gather"
    /\ \A t \in DOMAIN tasks : "1" \in tasks[t].offered /\ tasks[t].page >= 1
    /\ "1" \in IdsOf(tasks["50"].vacancies)
    /\ "2" \in IdsOf(tasks["7"].vacancies)

(***************************************************************************)
(* C29.  At every point of collect_500k_plus_vacancies,                    *)
(* stats['vacancies_collected'] equals the number of vacancies accepted    *)
(* into result lists so far (each counted once, so it equals the size of   *)
(* processed_vacancy_ids); the target check and get_final_stats()          *)
(* ['total_vacancies'] therefore reflect the real number collected.        *)
(***************************************************************************)
RECURSIVE AcceptedIn(_)
AcceptedIn(industries) ==
    IF industries = <<>> \/ DOMAIN tasks = {} THEN 0
    ELSE Len(tasks[Head(industries)].vacancies) + AcceptedIn(Tail(industries))

\* get_final_stats()['total_vacancies']
total_vacancies == collector.stats.vacancies_collected

C29_CollectedCountsAccepted ==
    /\ collector.stats.vacancies_collected = AcceptedIn(industries_list)
    /\ collector.stats.vacancies_collected = Cardinality(collector.processed_vacancy_ids)
    /\ total_vacancies = Cardinality(collector.processed_vacancy_ids)

\* the same at the points where no page collector is running
C29_CollectedCountsAcceptedBetweenGathers ==
    collector.pc \in {"start", "region", "collected"} => C29_CollectedCountsAccepted

\* the same once the region is done
C29_CollectedCountsAcceptedAtEnd ==
    collector.pc = "collected" => C29_CollectedCountsAccepted

(***************************************************************************)
(* hh_api_client.py: _send_request and rate_limit_semaphore.               *)
(*   A call is at "acquire" (waiting in `async with rate_limit_semaphore`),*)
(*   at "request" (holding a permit, the HTTP request sent) or "returned". *)
(*   On 429 the call sleeps and calls _send_request again from inside the  *)
(*   `async with`: it waits for a further permit with the ones it holds.   *)
(***************************************************************************)
MaxRequests == 3        \* _send_request calls made by the collectors
MaxThrottled == 2       \* 429 answers one call receives

Statuses == {"200", "400", "429", "500", "ClientError"}

NewCall == [pc |-> "acquire", held |-> 0, throttled |-> 0]

InitRequests == IdleMerger /\ InitDbState /\ IdleStats /\ IdleTools

\* a collector coroutine calls _send_request(url, params)
SendRequest ==
    /\ Len(requests.calls) < MaxRequests
    /\ requests' = [requests EXCEPT !.calls = Append(@, NewCall)]
    /\ UNCHANGED otherThanRequests

\* `async with self.rate_limit_semaphore` is entered, then _rate_limit,
\* _get_session, total_requests += 1 and session.get
Acquire(c) ==
    /\ c \in 1..Len(requests.calls)
    /\ requests.calls[c].pc = "acquire"
    /\ requests.permits > 0
    /\ requests' = [requests EXCEPT
          !.permits = @ - 1,
          !.calls[c].held = @ + 1,
          !.calls[c].pc = "request",
          !.stats.total_requests = @ + 1]
    /\ UNCHANGED otherThanRequests

\* the answer: 429 sleeps and re-enters _send_request holding its permits;
\* anything else returns through every `async with` the call is inside of
Answer(c, status) ==
    /\ c \in 1..Len(requests.calls)
    /\ requests.calls[c].pc = "request"
    /\ status = "429" => requests.calls[c].throttled < MaxThrottled
    /\ requests' =
          IF status = "429"
          THEN [requests EXCEPT !.calls[c].pc = "acquire", !.calls[c].throttled = @ + 1]
          ELSE [requests EXCEPT
                  !.permits = @ + requests.calls[c].held,
                  !.calls[c].held = 0,
                  !.calls[c].pc = "returned",
                  !.stats.successful_requests = IF status = "200" THEN @ + 1 ELSE @,
                  !.stats.failed_requests = IF status = "ClientError" THEN @ + 1 ELSE @]
    /\ UNCHANGED otherThanRequests

Respond(c) == \E status \in Statuses : Answer(c, status)

NextRequests ==
    \/ SendRequest
    \/ \E c \in 1..MaxRequests : Acquire(c)
    \/ \E c \in 1..MaxRequests : Respond(c)

SpecRequests == InitRequests /\ [][NextRequests]_vars

\* asyncio wakes the waiters of a semaphore in FIFO order, so a waiter is not
\* passed over for ever while permits keep coming back (SF); the session's
\* timeout ends every request with an answer or an exception (WF)
SpecRequestsFair ==
    /\ SpecRequests
    /\ \A c \in 1..MaxRequests : SF_vars(Acquire(c)) /\ WF_vars(Respond(c))

(***************************************************************************)
(* C28.  The request semaphore cannot deadlock: for any number of          *)
(* concurrent _send_request calls and any sequence of HTTP statuses        *)
(* (including 429 answered to all in-flight requests at once), every call  *)
(* eventually returns and every task waiting for a permit eventually       *)
(* obtains one; at no time are more than max_concurrent_requests requests  *)
(* in flight.                                                              *)
(***************************************************************************)
InFlight == Cardinality({c \in 1..Len(requests.calls) : requests.calls[c].pc = "request"})

Called(c) == c <= Len(requests.calls)

C28_InFlightBounded == InFlight <= MaxConcurrent

C28_SemaphoreNeverDeadlocks ==
    /\ [](InFlight <= MaxConcurrent)
    /\ \A c \in 1..MaxRequests :
          /\ (Called(c) /\ requests.calls[c].pc = "acquire")
                ~> (Called(c) /\ requests.calls[c].pc # "acquire")
          /\ Called(c) ~> (Called(c) /\ requests.calls[c].pc = "returned")

\* every permit is held by a call that waits for another one
C28_AllPermitsHeldByWaiters ==
    /\ requests.permits = 0
    /\ \A c \in 1..Len(requests.calls) : requests.calls[c].pc = "acquire"
    /\ \E c \in 1..Len(requests.calls) : requests.calls[c].held > 0

====
